---------------------------- MODULE Spec2Model ----------------------------
(***************************************************************************)
(* A model of the keyvault repository:                                     *)
(*   - src/utils/shamirSecretSharing.ts  (GF256, Polynomial,               *)
(*     ShamirSecretSharing)                      specification SpecSSS     *)
(*   - src/contracts/ShamirRecovery.sol          specification SpecShamir  *)
(*   - src/contracts/SocialRecovery.sol and the ownership part of          *)
(*     src/contracts/KeyVault.sol                specification SpecSocial  *)
(*   - SocialRecovery.sol within one block, three guardians                *)
(*                                          specification SpecSocialBlock  *)
(*   - src/contracts/KeyVault.sol calling both recovery contracts          *)
(*                                               specification SpecVault   *)
(*   - GF256.multiply and GF256.divide on their own                        *)
(*                                               specification SpecGF256   *)
(*   - src/contracts/StorageRegistry.sol        specification SpecRegistry *)
(*   - the hook useKeyVaultStorage (src/unnamed/part_004)                  *)
(*                                               specification SpecStorage *)
(*   - reconstructSecret on any list of shares                             *)
(*                                           specification SpecReconstruct *)
(*   - both recovery contracts called for two owners                       *)
(*                                               specification SpecOwners  *)
(*   - splitSecret with every payload a share can get                      *)
(*                                               specification SpecSecrecy *)
(*   - SocialRecovery.sol with three guardians and the passing of time     *)
(*                                       specification SpecSocialDeadline  *)
(*   - submitShare of the hook useShamirRecovery (src/unnamed/part_002)    *)
(*                                               specification SpecSubmit  *)
(*   - voteOnProposal of the hook useSocialRecovery                        *)
(*                                               specification SpecVote    *)
(*   - renewDeals of the hook useKeyVaultStorage                           *)
(*                                               specification SpecRenew   *)
(* Every call of a contract that succeeds is one action, recorded in the   *)
(* variable last.  A call that reverts changes no storage (the EVM rolls   *)
(* the transaction back), so it is a stuttering step; the operator         *)
(* <function>Revert gives, for a call and the current storage, the message *)
(* of the first require that fails, or "" when the call succeeds.          *)
(***************************************************************************)
EXTENDS Integers, Sequences, FiniteSets, TLC

VARIABLES
    \* ---- shamirSecretSharing.ts (SpecSSS)
    sssPc,          \* "input" -> "split" -> "reconstructed"
    sssSecret,      \* the secret handed to splitSecret (sequence of bytes)
    sssThreshold,   \* the threshold argument M
    sssTotal,       \* the totalShares argument N
    sssShares,      \* the result of splitSecret
    sssPicked,      \* the share list handed to reconstructSecret
    sssResult,      \* the result of reconstructSecret
    sssPayloads,    \* SpecSecrecy: the payloads splitSecret can give each share
    \* ---- the chain, as the contracts see it
    now,            \* block.timestamp, in seconds
    steps,          \* the number of calls that succeeded and of passings of time so far
    last,           \* the last call that succeeded (or the passing of time)
    \* ---- ShamirRecovery.sol (SpecShamir)
    shamirConfigs,      \* mapping(address => ShamirConfig)
    shares,             \* mapping(address => mapping(uint256 => ShareInfo))
    recoveryAttempts,   \* mapping(address => mapping(bytes32 => RecoveryAttempt))
    acceptedIndices,    \* history: per attempt, the share indices submitShare accepted
    \* ---- SocialRecovery.sol and KeyVault.sol (SpecSocial)
    socialConfigs,      \* mapping(address => SocialConfig)
    guardians,          \* mapping(address => mapping(uint256 => Guardian)); index k is element k + 1
    isGuardian,         \* mapping(address => mapping(address => bool))
    recoveryProposals,  \* mapping(address => mapping(bytes32 => RecoveryProposal))
    ownerProposals,     \* mapping(address => bytes32[])
    recoveryExecuted,   \* the RecoveryExecuted events emitted, each with its block's timestamp
    vaultOwner,         \* KeyVault.owner
    \* ---- KeyVault.sol (SpecVault)
    keys,               \* mapping(uint256 => KeyRecord), keys 1..keyCount
    userRecoveryMethod, \* mapping(address => RecoveryMethod)
    \* ---- GF256 called on its own (SpecGF256)
    gfPc,               \* "idle" | "input" -> "done"
    gfOp,               \* the GF256 function called
    gfA,                \* its first argument
    gfB,                \* its second argument
    gfResult,           \* what the call returned or threw
    \* ---- StorageRegistry.sol (SpecRegistry)
    providers,          \* mapping(address => StorageProvider)
    providerList,       \* address[]
    deals,              \* mapping(address => mapping(bytes32 => StorageDeal))
    ownerDeals,         \* mapping(address => bytes32[])
    redundancyConfigs,  \* mapping(address => RedundancyConfig)
    dataReplicas,       \* mapping(bytes32 => address[])
    \* ---- useKeyVaultStorage (SpecStorage)
    hookPc,             \* "idle" | "ready" -> "selected" | "uploading" -> "done"
    providersData,      \* providersQuery.data
    redundancyConfig,   \* the redundancyConfig state of the hook
    selectArgs,         \* the arguments of a call of selectOptimalProviders
    selectResult,       \* what that call returned or threw
    storeProviders,     \* storeWithRedundancy: providers
    storeI,             \* storeWithRedundancy: i
    storeAttempts,      \* storeWithRedundancy: the uploads made, <<provider, outcome>> each
    storeDeals,         \* storeWithRedundancy: deals
    storeResult,        \* what storeWithRedundancy returned or threw
    \* ---- useShamirRecovery (SpecSubmit)
    recoveryAttempt,    \* state.recoveryAttempt as last rendered
    submitCalls,        \* the submitShare calls made, with the state each closed over
    \* ---- useSocialRecovery (SpecVote)
    activeProposals,    \* state.activeProposals as last rendered
    voteCalls,          \* the voteOnProposal calls made, with the state each closed over
    dateNow,            \* Math.floor(Date.now() / 1000)
    \* ---- useKeyVaultStorage, renewDeals (SpecRenew)
    dealObjects,        \* the StorageDeal objects the caller holds
    renewResult         \* what the last renewDeals call returned or threw

sssVars == <<sssPc, sssSecret, sssThreshold, sssTotal, sssShares, sssPicked, sssResult,
            sssPayloads>>

chainVars == <<now, steps, last>>

shamirVars == <<shamirConfigs, shares, recoveryAttempts, acceptedIndices>>

socialVars == <<socialConfigs, guardians, isGuardian, recoveryProposals, ownerProposals,
                recoveryExecuted, vaultOwner>>

vaultVars == <<keys, userRecoveryMethod>>

gfVars == <<gfPc, gfOp, gfA, gfB, gfResult>>

registryVars == <<providers, providerList, deals, ownerDeals, redundancyConfigs,
                  dataReplicas>>

hookVars == <<hookPc, providersData, redundancyConfig, selectArgs, selectResult,
              storeProviders, storeI, storeAttempts, storeDeals, storeResult>>

clientVars == <<recoveryAttempt, submitCalls, activeProposals, voteCalls, dateNow,
               dealObjects, renewResult>>

vars == <<sssVars, chainVars, shamirVars, socialVars, vaultVars, gfVars, registryVars,
          hookVars, clientVars>>

(***************************************************************************)
(* Results of operations that may throw / revert.                          *)
(***************************************************************************)
Ok(v) == [ok |-> TRUE, val |-> v, err |-> ""]
Fail(msg) == [ok |-> FALSE, val |-> <<>>, err |-> msg]

(***************************************************************************)
(* GF256 (shamirSecretSharing.ts:6-61)                                     *)
(***************************************************************************)
RECURSIVE BitXor(_, _)
BitXor(a, b) ==
    IF a = 0 THEN b
    ELSE IF b = 0 THEN a
    ELSE (((a % 2) + (b % 2)) % 2) + 2 * BitXor(a \div 2, b \div 2)

RECURSIVE multiplyPrimitiveLoop(_, _, _)
multiplyPrimitiveLoop(a, b, result) ==
    IF b > 0
    THEN LET r1 == IF b % 2 = 1 THEN BitXor(result, a) ELSE result
             a1 == a * 2
             a2 == IF (a1 \div 256) % 2 = 1 THEN BitXor(a1, 283) ELSE a1
         IN  multiplyPrimitiveLoop(a2, b \div 2, r1)
    ELSE result

multiplyPrimitive(a, b) ==
    IF a = 0 \/ b = 0 THEN 0 ELSE multiplyPrimitiveLoop(a, b, 0)

\* The loop of initializeTables: acc holds EXP_TABLE[0..Len(acc)-1] and its last
\* element is x; each turn appends multiplyPrimitive(x, 3), up to n entries.
RECURSIVE initializeTablesLoop(_, _)
initializeTablesLoop(acc, n) ==
    IF Len(acc) < n
    THEN initializeTablesLoop(Append(acc, multiplyPrimitive(acc[Len(acc)], 3)), n)
    ELSE acc

\* The 255 turns of the loop, run 17 at a time to keep the evaluation shallow.
RECURSIVE initializeTablesTurns(_)
initializeTablesTurns(n) ==
    IF n <= 17 THEN initializeTablesLoop(<<1>>, n)
    ELSE initializeTablesLoop(initializeTablesTurns(n - 17), n)

\* EXP_TABLE[i] for i in 0..254 is the value of x at turn i; EXP_TABLE[255] wraps around.
EXP_TABLE ==
    LET t == initializeTablesTurns(255)
    IN  [i \in 0..255 |-> IF i = 255 THEN t[1] ELSE t[i + 1]]

\* LOG_TABLE[x] = i is assigned in increasing i: the last assignment stands.
LOG_TABLE ==
    [x \in {EXP_TABLE[i] : i \in 0..254} |->
        CHOOSE i \in 0..254 :
            EXP_TABLE[i] = x /\ \A j \in (i + 1)..254 : EXP_TABLE[j] # x]

\* Mutant: the sum of the logarithms reduced modulo 256.
GF256_multiplyMod256(a, b) ==
    IF a = 0 \/ b = 0 THEN 0
    ELSE EXP_TABLE[(LOG_TABLE[a] + LOG_TABLE[b]) % 256]

GF256_multiply(a, b) ==
    IF a = 0 \/ b = 0 THEN 0
    ELSE EXP_TABLE[(LOG_TABLE[a] + LOG_TABLE[b]) % 255]

GF256_add(a, b) == BitXor(a, b)

GF256_divide(a, b) ==
    IF a = 0 THEN Ok(0)
    ELSE IF b = 0 THEN Fail("Division by zero in GF(256)")
    ELSE Ok(EXP_TABLE[(LOG_TABLE[a] - LOG_TABLE[b] + 255) % 255])

\* The state of the hooks useShamirRecovery and useSocialRecovery as
\* constructed (part_002:139-148), and no StorageDeal objects yet.
ClientIdle ==
    /\ recoveryAttempt =
          [id |-> "", collectedShares |-> <<>>, requiredShares |-> 0, isComplete |-> FALSE]
    /\ submitCalls = <<>>
    /\ activeProposals = <<>>
    /\ voteCalls = <<>>
    /\ dateNow = 0
    /\ dealObjects = <<>>
    /\ renewResult = Fail("")

\* The field elements, and the storage of a call of GF256 made on its own.
GFElements == 0..255

GFIdle ==
    /\ gfPc = "idle"
    /\ gfOp = ""
    /\ gfA = 0
    /\ gfB = 0
    /\ gfResult = Fail("")

(***************************************************************************)
(* Polynomial.evaluate (shamirSecretSharing.ts:69-79)                      *)
(***************************************************************************)
RECURSIVE evaluateLoop(_, _, _, _, _)
evaluateLoop(coefficients, x, k, result, xPower) ==
    IF k > Len(coefficients) THEN result
    ELSE evaluateLoop(coefficients, x, k + 1,
                      GF256_add(result, GF256_multiply(coefficients[k], xPower)),
                      GF256_multiply(xPower, x))

evaluate(coefficients, x) == evaluateLoop(coefficients, x, 1, 0, 1)

(***************************************************************************)
(* ShamirSecretSharing (shamirSecretSharing.ts:134-349)                    *)
(* A share is [x, y, threshold, totalShares, keyId]; its timestamp is read *)
(* by no operation and is left out.  rnd[<<shareIndex, byteIndex, i>>] is  *)
(* the value generateRandomByte returns for coefficient i of the           *)
(* polynomial built for that share and byte (byteIndex is 1-based here).   *)
(***************************************************************************)
\* Mutant: generateRandomByte returning seven random bits.
splitShareDataSevenBits(secret, threshold, shareIndex, rnd) ==
    [byteIndex \in 1..Len(secret) |->
        LET coefficients ==
                [i \in 1..threshold |->
                    IF i = 1 THEN secret[byteIndex]
                    ELSE rnd[<<shareIndex, byteIndex, i - 1>>] % 128]
        IN  evaluate(coefficients, shareIndex)]

splitShareData(secret, threshold, shareIndex, rnd) ==
    [byteIndex \in 1..Len(secret) |->
        LET coefficients ==
                [i \in 1..threshold |->
                    IF i = 1 THEN secret[byteIndex]
                    ELSE rnd[<<shareIndex, byteIndex, i - 1>>]]
        IN  evaluate(coefficients, shareIndex)]

splitSecret(secret, threshold, totalShares, keyId, rnd) ==
    IF threshold < 2 \/ threshold > totalShares
    THEN Fail("Invalid threshold: must be 2 <= threshold <= totalShares")
    ELSE IF totalShares > 255
    THEN Fail("Total shares cannot exceed 255")
    ELSE IF Len(secret) = 0
    THEN Fail("Secret cannot be empty")
    ELSE Ok([shareIndex \in 1..totalShares |->
                [x |-> shareIndex,
                 y |-> splitShareData(secret, threshold, shareIndex, rnd),
                 threshold |-> threshold,
                 totalShares |-> totalShares,
                 keyId |-> keyId]])

RECURSIVE lagrangeNumerator(_, _, _, _, _)
lagrangeNumerator(points, x, i, j, numerator) ==
    IF j > Len(points) THEN numerator
    ELSE lagrangeNumerator(points, x, i, j + 1,
            IF i # j THEN GF256_multiply(numerator, GF256_add(x, points[j].x))
            ELSE numerator)

RECURSIVE lagrangeDenominator(_, _, _, _)
lagrangeDenominator(points, i, j, denominator) ==
    IF j > Len(points) THEN denominator
    ELSE lagrangeDenominator(points, i, j + 1,
            IF i # j THEN GF256_multiply(denominator, GF256_add(points[i].x, points[j].x))
            ELSE denominator)

RECURSIVE lagrangeLoop(_, _, _, _)
lagrangeLoop(points, x, i, result) ==
    IF i > Len(points) THEN Ok(result)
    ELSE LET lagrangeBasis ==
                 GF256_divide(lagrangeNumerator(points, x, i, 1, 1),
                              lagrangeDenominator(points, i, 1, 1))
         IN  IF ~lagrangeBasis.ok THEN lagrangeBasis
             ELSE lagrangeLoop(points, x, i + 1,
                     GF256_add(result, GF256_multiply(points[i].y, lagrangeBasis.val)))

lagrangeInterpolate(points, x) == lagrangeLoop(points, x, 1, 0)

\* Array.prototype.slice(start, end) for 0 <= start <= end: the elements at the
\* (0-based) positions start .. end - 1 that the array has.
slice(array, start, end) ==
    SubSeq(array, start + 1, IF end < Len(array) THEN end ELSE Len(array))

\* The validation loop of reconstructSecret: the first mismatch found, or "".
RECURSIVE validateShares(_, _, _, _, _)
validateShares(shareList, k, keyId, secretLength, threshold) ==
    IF k > Len(shareList) THEN ""
    ELSE IF shareList[k].keyId # keyId THEN "Shares are for different keys"
    ELSE IF Len(shareList[k].y) # secretLength THEN "Shares have different lengths"
    ELSE IF shareList[k].threshold # threshold THEN "Shares have different thresholds"
    ELSE validateShares(shareList, k + 1, keyId, secretLength, threshold)

RECURSIVE reconstructBytes(_, _, _, _)
reconstructBytes(requiredShares, secretLength, byteIndex, acc) ==
    IF byteIndex > secretLength THEN Ok(acc)
    ELSE LET points == [k \in 1..Len(requiredShares) |->
                           [x |-> requiredShares[k].x, y |-> requiredShares[k].y[byteIndex]]]
             b == lagrangeInterpolate(points, 0)
         IN  IF ~b.ok THEN b
             ELSE reconstructBytes(requiredShares, secretLength, byteIndex + 1,
                                   Append(acc, b.val))

\* Mutant: the length check of reconstructSecret off by one.
insufficientSharesOffByOne(shareList, threshold) == Len(shareList) < threshold - 1

insufficientShares(shareList, threshold) == Len(shareList) < threshold

reconstructSecret(shareList) ==
    IF Len(shareList) = 0 THEN Fail("No shares provided")
    ELSE LET firstShare == shareList[1]
             threshold == firstShare.threshold
             secretLength == Len(firstShare.y)
             keyId == firstShare.keyId
             mismatch == validateShares(shareList, 1, keyId, secretLength, threshold)
         IN  IF insufficientShares(shareList, threshold) THEN Fail("Insufficient shares")
             ELSE IF mismatch # "" THEN Fail(mismatch)
             ELSE reconstructBytes(slice(shareList, 0, threshold), secretLength, 1, <<>>)

(***************************************************************************)
(* The chain                                                               *)
(***************************************************************************)
HOUR == 3600                \* Solidity's time unit "1 hours", in seconds
ZeroAddress == "0x0"        \* address(0)
EmptyBytes == ""            \* the default value of bytes and string

\* keccak256, taken to be free of collisions.
keccak256(data) == <<"keccak256", data>>
ZeroHash == <<"bytes32", 0>>

(***************************************************************************)
(* ShamirRecovery.sol                                                      *)
(* ShamirConfig.createdAt and ShareInfo.timestamp are written and read by  *)
(* no function that changes state; they are left out.  A recovery id is    *)
(* keccak256(owner, msg.sender, block.timestamp, block.difficulty): one    *)
(* block has one timestamp and one difficulty, so the id is modelled as    *)
(* <<owner, msg.sender, block.timestamp>>.                                 *)
(***************************************************************************)
MaxShamirShares == 2    \* totalShares and threshold arguments range over 0..MaxShamirShares
MaxShamirSteps == 6     \* a run makes at most this many successful calls and passings of time
MaxShamirTicks == 2     \* of which at most this many passings of time
ShamirTickStep == 12 * HOUR

ShamirOwners == {"0xA", "0xB"}          \* the owner argument
ShamirSenders == {"0xA"}                \* msg.sender of initiateRecovery
Payloads == {"share-1", "share-2"}      \* the shareData argument
ShareIndexes == 1..MaxShamirShares      \* the indices storeShare can accept
ShareIndexArgs == 0..(MaxShamirShares + 1)

EmptyShamirConfig == [threshold |-> 0, totalShares |-> 0, isInitialized |-> FALSE]

EmptyShareInfo ==
    [shareIndex |-> 0, storageCid |-> EmptyBytes, storageProvider |-> ZeroAddress,
     shareHash |-> ZeroHash, isActive |-> FALSE]

EmptyRecoveryAttempt ==
    [initiator |-> ZeroAddress, submittedShares |-> 0, requiredShares |-> 0,
     deadline |-> 0, isComplete |-> FALSE,
     submittedShareData |-> [i \in ShareIndexes |-> EmptyBytes]]

\* Solidity's reading of a mapping: the default value where nothing was written.
shareAt(owner, shareIndex) ==
    IF shareIndex \in ShareIndexes THEN shares[owner][shareIndex] ELSE EmptyShareInfo

attemptAt(owner, recoveryId) ==
    IF recoveryId \in DOMAIN recoveryAttempts /\ recoveryId[1] = owner
    THEN recoveryAttempts[recoveryId]
    ELSE EmptyRecoveryAttempt

ShamirInit ==
    /\ shamirConfigs = [o \in ShamirOwners |-> EmptyShamirConfig]
    /\ shares = [o \in ShamirOwners |-> [i \in ShareIndexes |-> EmptyShareInfo]]
    /\ recoveryAttempts = << >>
    /\ acceptedIndices = << >>

ChainInit ==
    /\ now = 0
    /\ steps = 0
    /\ last = [op |-> "constructor", args |-> <<>>]

\* ---- configureShamir (ShamirRecovery.sol:66-83)
configureShamirRevert(owner, threshold, totalShares) ==
    IF ~(threshold > 0 /\ threshold <= totalShares)
    THEN "ShamirRecovery: invalid threshold"
    ELSE IF ~(totalShares >= 2 /\ totalShares <= 255)
    THEN "ShamirRecovery: invalid total shares"
    ELSE IF shamirConfigs[owner].isInitialized
    THEN "ShamirRecovery: already configured"
    ELSE ""

configureShamir(owner, threshold, totalShares) ==
    /\ configureShamirRevert(owner, threshold, totalShares) = ""
    /\ shamirConfigs' = [shamirConfigs EXCEPT ![owner] =
            [threshold |-> threshold, totalShares |-> totalShares, isInitialized |-> TRUE]]
    /\ last' = [op |-> "configureShamir", args |-> <<owner, threshold, totalShares>>]
    /\ UNCHANGED <<now, shares, recoveryAttempts, acceptedIndices>>

\* ---- storeShare (ShamirRecovery.sol:93-114)
storeShareRevert(owner, shareIndex, storageCid, storageProvider, shareHash) ==
    IF ~shamirConfigs[owner].isInitialized
    THEN "ShamirRecovery: not configured"
    ELSE IF ~(shareIndex > 0 /\ shareIndex <= shamirConfigs[owner].totalShares)
    THEN "ShamirRecovery: invalid share index"
    ELSE IF ~(storageCid # EmptyBytes)
    THEN "ShamirRecovery: empty CID"
    ELSE IF storageProvider = ZeroAddress
    THEN "ShamirRecovery: invalid provider"
    ELSE ""

storeShare(owner, shareIndex, storageCid, storageProvider, shareHash) ==
    /\ storeShareRevert(owner, shareIndex, storageCid, storageProvider, shareHash) = ""
    /\ shares' = [shares EXCEPT ![owner][shareIndex] =
            [shareIndex |-> shareIndex, storageCid |-> storageCid,
             storageProvider |-> storageProvider, shareHash |-> shareHash,
             isActive |-> TRUE]]
    /\ last' = [op |-> "storeShare", args |-> <<owner, shareIndex, shareHash>>]
    /\ UNCHANGED <<now, shamirConfigs, recoveryAttempts, acceptedIndices>>

\* ---- initiateRecovery (ShamirRecovery.sol:121-133)
initiateRecoveryRevert(owner, sender) ==
    IF ~shamirConfigs[owner].isInitialized
    THEN "ShamirRecovery: not configured"
    ELSE ""

recoveryIdOf(owner, sender) == <<owner, sender, now>>

\* The attempt is written field by field: submittedShareData keeps what it held.
initiateRecovery(owner, sender) ==
    LET recoveryId == recoveryIdOf(owner, sender)
        attempt == attemptAt(owner, recoveryId)
        written == [attempt EXCEPT !.initiator = sender,
                                   !.submittedShares = 0,
                                   !.requiredShares = shamirConfigs[owner].threshold,
                                   !.deadline = now + 24 * HOUR,
                                   !.isComplete = FALSE]
    IN  /\ initiateRecoveryRevert(owner, sender) = ""
        /\ recoveryAttempts' =
              [id \in DOMAIN recoveryAttempts \cup {recoveryId} |->
                  IF id = recoveryId THEN written ELSE recoveryAttempts[id]]
        /\ acceptedIndices' =
              [id \in DOMAIN recoveryAttempts \cup {recoveryId} |->
                  IF id = recoveryId THEN {} ELSE acceptedIndices[id]]
        /\ last' = [op |-> "initiateRecovery", args |-> <<owner, recoveryId>>]
        /\ UNCHANGED <<now, shamirConfigs, shares>>

\* ---- submitShare (ShamirRecovery.sol:142-168)
\* Mutant: submitShare without the require on the hash of the payload.
submitShareRevertNoHash(owner, recoveryId, shareIndex, shareData) ==
    LET attempt == attemptAt(owner, recoveryId)
    IN  IF ~(attempt.deadline > now)
        THEN "ShamirRecovery: recovery expired"
        ELSE IF attempt.isComplete
        THEN "ShamirRecovery: recovery already complete"
        ELSE IF ~shareAt(owner, shareIndex).isActive
        THEN "ShamirRecovery: share not active"
        ELSE ""

submitShareRevert(owner, recoveryId, shareIndex, shareData) ==
    LET attempt == attemptAt(owner, recoveryId)
    IN  IF ~(attempt.deadline > now)
        THEN "ShamirRecovery: recovery expired"
        ELSE IF attempt.isComplete
        THEN "ShamirRecovery: recovery already complete"
        ELSE IF ~shareAt(owner, shareIndex).isActive
        THEN "ShamirRecovery: share not active"
        ELSE IF keccak256(shareData) # shareAt(owner, shareIndex).shareHash
        THEN "ShamirRecovery: invalid share"
        ELSE ""

submitShare(owner, recoveryId, shareIndex, shareData) ==
    LET attempt == attemptAt(owner, recoveryId)
        count == attempt.submittedShares + 1
        written == [attempt EXCEPT !.submittedShareData[shareIndex] = shareData,
                                   !.submittedShares = count,
                                   !.isComplete = (count >= attempt.requiredShares)]
    IN  /\ submitShareRevert(owner, recoveryId, shareIndex, shareData) = ""
        /\ recoveryAttempts' = [recoveryAttempts EXCEPT ![recoveryId] = written]
        /\ acceptedIndices' = [acceptedIndices EXCEPT ![recoveryId] = @ \cup {shareIndex}]
        /\ last' = [op |-> "submitShare", args |-> <<owner, recoveryId, shareIndex>>]
        /\ UNCHANGED <<now, shamirConfigs, shares>>

\* ---- revokeShare (ShamirRecovery.sol:175-179)
\* Mutant: revokeShare without its require.
revokeShareRevertNoRequire(owner, shareIndex) == ""

revokeShareRevert(owner, shareIndex) ==
    IF ~shareAt(owner, shareIndex).isActive
    THEN "ShamirRecovery: share not active"
    ELSE ""

\* Mutant: revokeShare writing the share record of every owner.
revokeShareEveryOwner(owner, shareIndex) ==
    /\ revokeShareRevert(owner, shareIndex) = ""
    /\ shares' = [o \in DOMAIN shares |-> [shares[o] EXCEPT ![shareIndex].isActive = FALSE]]
    /\ last' = [op |-> "revokeShare", args |-> <<owner, shareIndex>>]
    /\ UNCHANGED <<now, shamirConfigs, recoveryAttempts, acceptedIndices>>

revokeShare(owner, shareIndex) ==
    /\ revokeShareRevert(owner, shareIndex) = ""
    /\ shares' = [shares EXCEPT ![owner][shareIndex].isActive = FALSE]
    /\ last' = [op |-> "revokeShare", args |-> <<owner, shareIndex>>]
    /\ UNCHANGED <<now, shamirConfigs, recoveryAttempts, acceptedIndices>>

\* ---- getSubmittedShareData (ShamirRecovery.sol:220-224), a view
getSubmittedShareData(owner, recoveryId, shareIndex) ==
    LET attempt == attemptAt(owner, recoveryId)
    IN  IF ~attempt.isComplete
        THEN Fail("ShamirRecovery: recovery not complete")
        ELSE Ok(IF shareIndex \in ShareIndexes
                THEN attempt.submittedShareData[shareIndex]
                ELSE EmptyBytes)

(***************************************************************************)
(* SocialRecovery.sol                                                      *)
(* Guardian.addedAt is read by no function that changes state; it is left  *)
(* out.  A proposal id is keccak256(owner, newOwner, msg.sender,           *)
(* block.timestamp), modelled as <<owner, newOwner, msg.sender, now>>.     *)
(***************************************************************************)
MaxGuardians == 2       \* addGuardian is called while totalGuardians < MaxGuardians
MaxApprovals == 2       \* the requiredApprovals argument ranges over 0..MaxApprovals
MaxDelayHours == 2      \* the recoveryDelay argument ranges over 0..MaxDelayHours hours
MaxSocialSteps == 8     \* a run makes at most this many successful calls and passings of time
MaxSocialTicks == 3     \* of which at most this many passings of time, of one hour each

SocialOwners == {"0xA"}                         \* the owner argument
VaultAddress == "0x7"                           \* address(this) of the KeyVault
Accounts == {"0xA", "0xB", "0xC", "0xD", VaultAddress}  \* msg.sender
GuardianArgs == {ZeroAddress, "0xA", "0xB", "0xC"}  \* the guardianAddress argument
NewOwnerArgs == {ZeroAddress, "0xA", "0xD"}     \* the newOwner argument
ShamirRecoveryAddress == "0x5"                  \* address(shamirRecovery)
SocialRecoveryAddress == "0x6"                  \* address(socialRecovery)

EmptySocialConfig ==
    [requiredApprovals |-> 0, totalGuardians |-> 0, recoveryDelay |-> 0,
     isInitialized |-> FALSE]

EmptyGuardian ==
    [guardianAddress |-> ZeroAddress, encryptedShare |-> EmptyBytes,
     storageCid |-> EmptyBytes, isActive |-> FALSE]

EmptyRecoveryProposal ==
    [proposer |-> ZeroAddress, newOwner |-> ZeroAddress, votesFor |-> 0,
     votesAgainst |-> 0, deadline |-> 0, isExecuted |-> FALSE, isActive |-> FALSE,
     hasVoted |-> [a \in Accounts |-> FALSE], voteChoice |-> [a \in Accounts |-> FALSE]]

\* Solidity's reading of a mapping: the default value where nothing was written.
guardianAt(owner, guardianIndex) ==
    IF guardianIndex + 1 \in DOMAIN guardians[owner]
    THEN guardians[owner][guardianIndex + 1]
    ELSE EmptyGuardian

proposalAt(owner, proposalId) ==
    IF proposalId \in DOMAIN recoveryProposals /\ proposalId[1] = owner
    THEN recoveryProposals[proposalId]
    ELSE EmptyRecoveryProposal

isGuardianAt(owner, account) ==
    IF account \in DOMAIN isGuardian[owner] THEN isGuardian[owner][account] ELSE FALSE

SocialInit ==
    /\ socialConfigs = [o \in SocialOwners |-> EmptySocialConfig]
    /\ guardians = [o \in SocialOwners |-> << >>]
    /\ isGuardian = [o \in SocialOwners |-> [a \in Accounts |-> FALSE]]
    /\ recoveryProposals = << >>
    /\ ownerProposals = [o \in SocialOwners |-> << >>]
    /\ recoveryExecuted = << >>
    /\ vaultOwner = "0xA"

\* ---- configureSocialRecovery (SocialRecovery.sol:80-97)
configureSocialRecoveryRevert(owner, requiredApprovals, recoveryDelay) ==
    IF ~(requiredApprovals > 0)
    THEN "SocialRecovery: invalid required approvals"
    ELSE IF ~(recoveryDelay >= 1 * HOUR)
    THEN "SocialRecovery: recovery delay too short"
    ELSE IF socialConfigs[owner].isInitialized
    THEN "SocialRecovery: already configured"
    ELSE ""

configureSocialRecovery(owner, requiredApprovals, recoveryDelay) ==
    /\ configureSocialRecoveryRevert(owner, requiredApprovals, recoveryDelay) = ""
    /\ socialConfigs' = [socialConfigs EXCEPT ![owner] =
            [requiredApprovals |-> requiredApprovals, totalGuardians |-> 0,
             recoveryDelay |-> recoveryDelay, isInitialized |-> TRUE]]
    /\ last' = [op |-> "configureSocialRecovery",
                args |-> <<owner, requiredApprovals, recoveryDelay>>]
    /\ UNCHANGED <<now, guardians, isGuardian, recoveryProposals, ownerProposals,
                   recoveryExecuted, vaultOwner>>

\* ---- addGuardian (SocialRecovery.sol:106-130)
addGuardianRevert(owner, guardianAddress, encryptedShare, storageCid) ==
    IF ~socialConfigs[owner].isInitialized
    THEN "SocialRecovery: not configured"
    ELSE IF guardianAddress = ZeroAddress
    THEN "SocialRecovery: invalid guardian address"
    ELSE IF guardianAddress = owner
    THEN "SocialRecovery: cannot be own guardian"
    ELSE IF isGuardianAt(owner, guardianAddress)
    THEN "SocialRecovery: guardian already exists"
    ELSE IF encryptedShare = EmptyBytes
    THEN "SocialRecovery: empty encrypted share"
    ELSE ""

addGuardian(owner, guardianAddress, encryptedShare, storageCid) ==
    LET guardianIndex == socialConfigs[owner].totalGuardians
        guardian == [guardianAddress |-> guardianAddress,
                     encryptedShare |-> encryptedShare,
                     storageCid |-> storageCid, isActive |-> TRUE]
    IN  /\ addGuardianRevert(owner, guardianAddress, encryptedShare, storageCid) = ""
        /\ guardians' = [guardians EXCEPT ![owner] =
                [k \in 1..(guardianIndex + 1) |->
                    IF k = guardianIndex + 1 THEN guardian ELSE guardians[owner][k]]]
        /\ isGuardian' = [isGuardian EXCEPT ![owner][guardianAddress] = TRUE]
        /\ socialConfigs' = [socialConfigs EXCEPT ![owner].totalGuardians = @ + 1]
        /\ last' = [op |-> "addGuardian", args |-> <<owner, guardianAddress, guardianIndex>>]
        /\ UNCHANGED <<now, recoveryProposals, ownerProposals, recoveryExecuted, vaultOwner>>

\* ---- removeGuardian (SocialRecovery.sol:137-147)
removeGuardianRevert(owner, guardianIndex) ==
    IF ~(guardianIndex < socialConfigs[owner].totalGuardians)
    THEN "SocialRecovery: invalid guardian index"
    ELSE IF ~guardianAt(owner, guardianIndex).isActive
    THEN "SocialRecovery: guardian not active"
    ELSE ""

removeGuardian(owner, guardianIndex) ==
    LET guardian == guardianAt(owner, guardianIndex)
    IN  /\ removeGuardianRevert(owner, guardianIndex) = ""
        /\ guardians' = [guardians EXCEPT ![owner][guardianIndex + 1].isActive = FALSE]
        /\ isGuardian' = [isGuardian EXCEPT ![owner][guardian.guardianAddress] = FALSE]
        /\ last' = [op |-> "removeGuardian",
                    args |-> <<owner, guardian.guardianAddress, guardianIndex>>]
        /\ UNCHANGED <<now, socialConfigs, recoveryProposals, ownerProposals,
                       recoveryExecuted, vaultOwner>>

\* ---- proposeRecovery (SocialRecovery.sol:154-177)
\* Mutant: proposeRecovery without onlyGuardian.
proposeRecoveryRevertAnySender(owner, newOwner, sender) ==
    IF newOwner = ZeroAddress
    THEN "SocialRecovery: invalid new owner"
    ELSE IF newOwner = owner
    THEN "SocialRecovery: same owner"
    ELSE ""

proposeRecoveryRevert(owner, newOwner, sender) ==
    IF ~isGuardianAt(owner, sender)
    THEN "SocialRecovery: not a guardian"
    ELSE IF newOwner = ZeroAddress
    THEN "SocialRecovery: invalid new owner"
    ELSE IF newOwner = owner
    THEN "SocialRecovery: same owner"
    ELSE ""

proposalIdOf(owner, newOwner, sender) == <<owner, newOwner, sender, now>>

proposalDeadline(owner) == now + socialConfigs[owner].recoveryDelay

\* The proposal is written field by field: the hasVoted and voteChoice entries
\* of the other accounts keep what they held.
proposeRecovery(owner, newOwner, sender) ==
    LET proposalId == proposalIdOf(owner, newOwner, sender)
        proposal == proposalAt(owner, proposalId)
        written == [proposal EXCEPT !.proposer = sender,
                                    !.newOwner = newOwner,
                                    !.votesFor = 1,
                                    !.votesAgainst = 0,
                                    !.deadline = proposalDeadline(owner),
                                    !.isExecuted = FALSE,
                                    !.isActive = TRUE,
                                    !.hasVoted[sender] = TRUE,
                                    !.voteChoice[sender] = TRUE]
    IN  /\ proposeRecoveryRevert(owner, newOwner, sender) = ""
        /\ recoveryProposals' =
              [id \in DOMAIN recoveryProposals \cup {proposalId} |->
                  IF id = proposalId THEN written ELSE recoveryProposals[id]]
        /\ ownerProposals' = [ownerProposals EXCEPT ![owner] = Append(@, proposalId)]
        /\ last' = [op |-> "proposeRecovery", args |-> <<owner, proposalId, sender>>]
        /\ UNCHANGED <<now, socialConfigs, guardians, isGuardian, recoveryExecuted,
                       vaultOwner>>

\* ---- voteRecovery (SocialRecovery.sol:185-201)
\* Mutant: voteRecovery without the require on the deadline.
voteRecoveryRevertNoDeadline(owner, proposalId, vote, sender) ==
    LET proposal == proposalAt(owner, proposalId)
    IN  IF ~isGuardianAt(owner, sender)
        THEN "SocialRecovery: not a guardian"
        ELSE IF ~proposal.isActive
        THEN "SocialRecovery: proposal not active"
        ELSE IF proposal.hasVoted[sender]
        THEN "SocialRecovery: already voted"
        ELSE ""

voteRecoveryRevert(owner, proposalId, vote, sender) ==
    LET proposal == proposalAt(owner, proposalId)
    IN  IF ~isGuardianAt(owner, sender)
        THEN "SocialRecovery: not a guardian"
        ELSE IF ~proposal.isActive
        THEN "SocialRecovery: proposal not active"
        ELSE IF ~(now < proposal.deadline)
        THEN "SocialRecovery: voting period ended"
        ELSE IF proposal.hasVoted[sender]
        THEN "SocialRecovery: already voted"
        ELSE ""

voteRecovery(owner, proposalId, vote, sender) ==
    LET proposal == proposalAt(owner, proposalId)
        written == [proposal EXCEPT !.hasVoted[sender] = TRUE,
                                    !.voteChoice[sender] = vote,
                                    !.votesFor = IF vote THEN @ + 1 ELSE @,
                                    !.votesAgainst = IF vote THEN @ ELSE @ + 1]
    IN  /\ voteRecoveryRevert(owner, proposalId, vote, sender) = ""
        /\ recoveryProposals' = [recoveryProposals EXCEPT ![proposalId] = written]
        /\ last' = [op |-> "voteRecovery", args |-> <<owner, proposalId, sender, vote>>]
        /\ UNCHANGED <<now, socialConfigs, guardians, isGuardian, ownerProposals,
                       recoveryExecuted, vaultOwner>>

\* ---- executeRecovery (SocialRecovery.sol:208-222)
\* Mutant: executeRecovery without the require on the deadline.
executeRecoveryRevertNoTimelock(owner, proposalId) ==
    LET proposal == proposalAt(owner, proposalId)
    IN  IF ~proposal.isActive
        THEN "SocialRecovery: proposal not active"
        ELSE IF proposal.isExecuted
        THEN "SocialRecovery: already executed"
        ELSE IF ~(proposal.votesFor >= socialConfigs[owner].requiredApprovals)
        THEN "SocialRecovery: insufficient votes"
        ELSE ""

\* Mutant: executeRecovery without the requires on isActive and isExecuted.
executeRecoveryRevertNoStateCheck(owner, proposalId) ==
    LET proposal == proposalAt(owner, proposalId)
    IN  IF ~(now >= proposal.deadline)
        THEN "SocialRecovery: recovery delay not met"
        ELSE IF ~(proposal.votesFor >= socialConfigs[owner].requiredApprovals)
        THEN "SocialRecovery: insufficient votes"
        ELSE ""

executeRecoveryRevert(owner, proposalId) ==
    LET proposal == proposalAt(owner, proposalId)
    IN  IF ~proposal.isActive
        THEN "SocialRecovery: proposal not active"
        ELSE IF ~(now >= proposal.deadline)
        THEN "SocialRecovery: recovery delay not met"
        ELSE IF proposal.isExecuted
        THEN "SocialRecovery: already executed"
        ELSE IF ~(proposal.votesFor >= socialConfigs[owner].requiredApprovals)
        THEN "SocialRecovery: insufficient votes"
        ELSE ""

\* executeRecovery writes the proposal and emits RecoveryExecuted; it makes no
\* call to another contract.
executeRecovery(owner, proposalId) ==
    LET proposal == proposalAt(owner, proposalId)
    IN  /\ proposalId \in DOMAIN recoveryProposals
        /\ executeRecoveryRevert(owner, proposalId) = ""
        /\ recoveryProposals' = [recoveryProposals EXCEPT
                ![proposalId].isExecuted = TRUE, ![proposalId].isActive = FALSE]
        /\ recoveryExecuted' = Append(recoveryExecuted,
                [owner |-> owner, proposalId |-> proposalId,
                 newOwner |-> proposal.newOwner, timestamp |-> now])
        /\ last' = [op |-> "executeRecovery", args |-> <<owner, proposalId>>]
        /\ UNCHANGED <<now, socialConfigs, guardians, isGuardian, ownerProposals,
                       vaultOwner>>

\* ---- rejectRecovery (SocialRecovery.sol:229-249)
shouldReject(owner, proposalId) ==
    LET proposal == proposalAt(owner, proposalId)
    IN  \/ proposal.votesAgainst > socialConfigs[owner].totalGuardians \div 2
        \/ /\ now >= proposal.deadline
           /\ proposal.votesFor < socialConfigs[owner].requiredApprovals

rejectRecoveryRevert(owner, proposalId) ==
    IF ~proposalAt(owner, proposalId).isActive
    THEN "SocialRecovery: proposal not active"
    ELSE IF ~shouldReject(owner, proposalId)
    THEN "SocialRecovery: cannot reject proposal"
    ELSE ""

rejectRecovery(owner, proposalId) ==
    /\ proposalId \in DOMAIN recoveryProposals
    /\ rejectRecoveryRevert(owner, proposalId) = ""
    /\ recoveryProposals' = [recoveryProposals EXCEPT ![proposalId].isActive = FALSE]
    /\ last' = [op |-> "rejectRecovery", args |-> <<owner, proposalId>>]
    /\ UNCHANGED <<now, socialConfigs, guardians, isGuardian, ownerProposals,
                   recoveryExecuted, vaultOwner>>

(***************************************************************************)
(* KeyVault.sol: the owner field and the functions that write it.          *)
(***************************************************************************)
\* ---- transferOwnership (KeyVault.sol:237-242), with onlyRecoveryContract (66-72)
transferOwnershipRevert(sender, newOwner) ==
    IF ~(sender = ShamirRecoveryAddress \/ sender = SocialRecoveryAddress)
    THEN "KeyVault: caller is not recovery contract"
    ELSE IF newOwner = ZeroAddress
    THEN "KeyVault: invalid new owner"
    ELSE ""

transferOwnership(sender, newOwner) ==
    /\ transferOwnershipRevert(sender, newOwner) = ""
    /\ vaultOwner' = newOwner
    /\ last' = [op |-> "transferOwnership", args |-> <<sender, newOwner>>]
    /\ UNCHANGED <<now, socialConfigs, guardians, isGuardian, recoveryProposals,
                   ownerProposals, recoveryExecuted>>

\* ---- emergencyTransferOwnership (KeyVault.sol:248-253), with onlyOwner (61-64)
emergencyTransferOwnershipRevert(sender, newOwner) ==
    IF sender # vaultOwner
    THEN "KeyVault: caller is not owner"
    ELSE IF newOwner = ZeroAddress
    THEN "KeyVault: invalid new owner"
    ELSE ""

emergencyTransferOwnership(sender, newOwner) ==
    /\ emergencyTransferOwnershipRevert(sender, newOwner) = ""
    /\ vaultOwner' = newOwner
    /\ last' = [op |-> "emergencyTransferOwnership", args |-> <<sender, newOwner>>]
    /\ UNCHANGED <<now, socialConfigs, guardians, isGuardian, recoveryProposals,
                   ownerProposals, recoveryExecuted>>

(***************************************************************************)
(* KeyVault.sol: the key records and the recovery methods.                 *)
(* Of a KeyRecord the model keeps hasSharedShares and hasSocialBackup; the *)
(* other fields are read by no function that changes state.  A call the    *)
(* vault makes to a recovery contract carries msg.sender = VaultAddress,   *)
(* and its revert is the revert of the vault's call.  Where the vault      *)
(* calls a recovery contract, last holds that inner call.                  *)
(***************************************************************************)
MaxKeys == 2            \* storeKey is called while keyCount < MaxKeys
MaxVaultSteps == 6      \* a run makes at most this many successful calls and passings of time
MaxVaultTicks == 1      \* of which at most this many passings of time, of one hour each
VaultOwners == {"0xA", "0xB"}               \* the values KeyVault.owner takes
VaultSenders == {"0xA", "0xB", "0xC"}       \* msg.sender of the calls to the vault
VaultNewOwnerArgs == {ZeroAddress, "0xB"}   \* the newOwner argument
VaultGuardianArgs == {"0xC", VaultAddress}  \* the guardianAddress argument
RecoveryMethod == {"None", "Shamir", "Social", "Both"}     \* enum RecoveryMethod

keyCount == Len(keys)

VaultInit ==
    /\ keys = << >>
    /\ userRecoveryMethod = [a \in VaultOwners |-> "None"]

\* The storage of SocialRecovery at deployment, for the owners a vault can have.
VaultSocialInit ==
    /\ socialConfigs = [o \in VaultOwners |-> EmptySocialConfig]
    /\ guardians = [o \in VaultOwners |-> << >>]
    /\ isGuardian = [o \in VaultOwners |-> [a \in Accounts |-> FALSE]]
    /\ recoveryProposals = << >>
    /\ ownerProposals = [o \in VaultOwners |-> << >>]
    /\ recoveryExecuted = << >>
    /\ vaultOwner = "0xA"

\* require(keyId <= keyCount && keyId > 0)
validKeyId(keyId) == keyId <= keyCount /\ keyId > 0

\* ---- storeKey (KeyVault.sol:111-133), with onlyOwner (61-64)
storeKeyRevert(sender) ==
    IF sender # vaultOwner THEN "KeyVault: caller is not owner" ELSE ""

storeKey(sender) ==
    /\ storeKeyRevert(sender) = ""
    /\ keys' = Append(keys, [hasSharedShares |-> FALSE, hasSocialBackup |-> FALSE])
    /\ last' = [op |-> "storeKey", args |-> <<sender, keyCount + 1>>]
    /\ UNCHANGED <<now, userRecoveryMethod, shamirVars, socialVars>>

\* The update of userRecoveryMethod[owner] at the end of enableShamirRecovery
\* (enabled = "Shamir", other = "Social") and of enableSocialRecovery
\* (enabled = "Social", other = "Shamir").
methodAfterEnable(current, enabled, other) ==
    IF current = "None" THEN enabled
    ELSE IF current = other THEN "Both"
    ELSE current

\* ---- enableShamirRecovery (KeyVault.sol:141-161)
enableShamirRecoveryRevert(sender, keyId, threshold, totalShares) ==
    IF sender # vaultOwner
    THEN "KeyVault: caller is not owner"
    ELSE IF ~validKeyId(keyId)
    THEN "KeyVault: invalid key ID"
    ELSE IF keys[keyId].hasSharedShares
    THEN "KeyVault: Shamir already enabled"
    ELSE configureShamirRevert(vaultOwner, threshold, totalShares)

enableShamirRecovery(sender, keyId, threshold, totalShares) ==
    /\ enableShamirRecoveryRevert(sender, keyId, threshold, totalShares) = ""
    /\ configureShamir(vaultOwner, threshold, totalShares)
    /\ keys' = [keys EXCEPT ![keyId].hasSharedShares = TRUE]
    /\ userRecoveryMethod' = [userRecoveryMethod EXCEPT ![vaultOwner] =
            methodAfterEnable(@, "Shamir", "Social")]
    /\ UNCHANGED socialVars

\* ---- enableSocialRecovery (KeyVault.sol:169-189)
enableSocialRecoveryRevert(sender, keyId, requiredApprovals, recoveryDelay) ==
    IF sender # vaultOwner
    THEN "KeyVault: caller is not owner"
    ELSE IF ~validKeyId(keyId)
    THEN "KeyVault: invalid key ID"
    ELSE IF keys[keyId].hasSocialBackup
    THEN "KeyVault: Social recovery already enabled"
    ELSE configureSocialRecoveryRevert(vaultOwner, requiredApprovals, recoveryDelay)

enableSocialRecovery(sender, keyId, requiredApprovals, recoveryDelay) ==
    /\ enableSocialRecoveryRevert(sender, keyId, requiredApprovals, recoveryDelay) = ""
    /\ configureSocialRecovery(vaultOwner, requiredApprovals, recoveryDelay)
    /\ keys' = [keys EXCEPT ![keyId].hasSocialBackup = TRUE]
    /\ userRecoveryMethod' = [userRecoveryMethod EXCEPT ![vaultOwner] =
            methodAfterEnable(@, "Social", "Shamir")]
    /\ UNCHANGED shamirVars

\* ---- setRecoveryMethod (KeyVault.sol:98-101)
setRecoveryMethodRevert(sender, method) ==
    IF sender # vaultOwner THEN "KeyVault: caller is not owner" ELSE ""

setRecoveryMethod(sender, method) ==
    /\ setRecoveryMethodRevert(sender, method) = ""
    /\ userRecoveryMethod' = [userRecoveryMethod EXCEPT ![vaultOwner] = method]
    /\ last' = [op |-> "setRecoveryMethod", args |-> <<sender, method>>]
    /\ UNCHANGED <<now, keys, shamirVars, socialVars>>

\* ---- initiateRecovery (KeyVault.sol:196-212)
KeyVault_initiateRecoveryRevert(sender, keyId, method) ==
    IF ~validKeyId(keyId)
    THEN "KeyVault: invalid key ID"
    ELSE IF method = "Shamir"
    THEN IF ~keys[keyId].hasSharedShares
         THEN "KeyVault: Shamir not configured for this key"
         ELSE initiateRecoveryRevert(vaultOwner, VaultAddress)
    ELSE IF method = "Social"
    THEN IF ~keys[keyId].hasSocialBackup
         THEN "KeyVault: Social recovery not configured for this key"
         ELSE proposeRecoveryRevert(vaultOwner, sender, VaultAddress)
    ELSE "KeyVault: invalid recovery method"

KeyVault_initiateRecovery(sender, keyId, method) ==
    /\ KeyVault_initiateRecoveryRevert(sender, keyId, method) = ""
    /\ IF method = "Shamir"
       THEN initiateRecovery(vaultOwner, VaultAddress) /\ UNCHANGED socialVars
       ELSE proposeRecovery(vaultOwner, sender, VaultAddress) /\ UNCHANGED shamirVars
    /\ UNCHANGED vaultVars

\* ---- getKeyRecoveryStatus (KeyVault.sol:261-269), a view
getKeyRecoveryStatus(keyId) ==
    IF ~validKeyId(keyId)
    THEN Fail("KeyVault: invalid key ID")
    ELSE Ok(<<keys[keyId].hasSharedShares, keys[keyId].hasSocialBackup,
              userRecoveryMethod[vaultOwner]>>)

(***************************************************************************)
(* StorageRegistry.sol                                                     *)
(* Of a StorageProvider the model keeps dealCount and isActive, of a        *)
(* StorageDeal provider, endEpoch, dataHash, status and createdAt: the      *)
(* other fields are read by no function that changes state.  A deal hash is *)
(* keccak256(owner, provider, dataCid, dealId, block.timestamp), modelled   *)
(* as <<owner, provider, dataCid, dealId, now>>.                            *)
(***************************************************************************)
MaxReplicas == 2        \* minReplicas and maxReplicas arguments range over 0..MaxReplicas
MaxEndEpoch == 2        \* endEpoch and newEndEpoch arguments range over 0..MaxEndEpoch
MaxRenewalWindow == 1   \* renewalWindow arguments range over 0..MaxRenewalWindow
MaxRegistrySteps == 5   \* a run makes at most this many successful calls and passings of time
MaxRegistryTicks == 1   \* of which at most this many passings of time
RegistryGenesis == 1    \* block.timestamp of the first block after deployment

RegistryOwners == {"0xA"}                       \* the owner argument
RegistryProviders == {"0xP1", "0xP2"}           \* storage providers
ProviderArgs == RegistryProviders \cup {ZeroAddress}  \* the provider address argument
DataHashes == {keccak256("data")}               \* the dataHash argument
DealIds == {1}                                  \* the dealId argument
DealStatus == {"Pending", "Active", "Expired", "Failed", "Renewed"}

EmptyStorageProvider == [dealCount |-> 0, isActive |-> FALSE]

EmptyStorageDeal ==
    [provider |-> ZeroAddress, endEpoch |-> 0, dataHash |-> ZeroHash,
     status |-> "Pending", createdAt |-> 0]

EmptyRedundancyConfig == [minReplicas |-> 0, maxReplicas |-> 0, renewalWindow |-> 0]

\* Solidity's reading of a mapping: the default value where nothing was written.
dealAt(owner, dealHash) ==
    IF dealHash \in DOMAIN deals /\ dealHash[1] = owner
    THEN deals[dealHash]
    ELSE EmptyStorageDeal

RegistryInit ==
    /\ providers = [p \in ProviderArgs |-> EmptyStorageProvider]
    /\ providerList = << >>
    /\ deals = << >>
    /\ ownerDeals = [o \in RegistryOwners |-> << >>]
    /\ redundancyConfigs = [o \in RegistryOwners |-> EmptyRedundancyConfig]
    /\ dataReplicas = [h \in DataHashes |-> << >>]

\* ---- registerProvider (StorageRegistry.sol:84-99)
registerProviderRevert(providerAddress) ==
    IF providerAddress = ZeroAddress
    THEN "StorageRegistry: invalid provider address"
    ELSE IF providers[providerAddress].isActive
    THEN "StorageRegistry: provider already registered"
    ELSE ""

registerProvider(providerAddress) ==
    /\ registerProviderRevert(providerAddress) = ""
    /\ providers' = [providers EXCEPT ![providerAddress] =
                        [dealCount |-> 0, isActive |-> TRUE]]
    /\ providerList' = Append(providerList, providerAddress)
    /\ last' = [op |-> "registerProvider", args |-> <<providerAddress>>]
    /\ UNCHANGED <<now, deals, ownerDeals, redundancyConfigs, dataReplicas>>

\* ---- deactivateProvider (StorageRegistry.sol:105-109)
deactivateProviderRevert(providerAddress) ==
    IF ~providers[providerAddress].isActive
    THEN "StorageRegistry: provider not active"
    ELSE ""

deactivateProvider(providerAddress) ==
    /\ deactivateProviderRevert(providerAddress) = ""
    /\ providers' = [providers EXCEPT ![providerAddress].isActive = FALSE]
    /\ last' = [op |-> "deactivateProvider", args |-> <<providerAddress>>]
    /\ UNCHANGED <<now, providerList, deals, ownerDeals, redundancyConfigs, dataReplicas>>

\* ---- selectProvidersForRedundancy (StorageRegistry.sol:224-260), a view
\* The loop over providerList from index i (0-based), selected so far.
RECURSIVE selectProvidersLoop(_, _, _, _)
selectProvidersLoop(excludeProviders, needed, i, selectedProviders) ==
    IF i < Len(providerList) /\ Len(selectedProviders) < needed
    THEN LET provider == providerList[i + 1]
             shouldExclude ==
                 \E j \in 1..Len(excludeProviders) : provider = excludeProviders[j]
         IN  IF ~providers[provider].isActive \/ shouldExclude
             THEN selectProvidersLoop(excludeProviders, needed, i + 1, selectedProviders)
             ELSE selectProvidersLoop(excludeProviders, needed, i + 1,
                                      Append(selectedProviders, provider))
    ELSE selectedProviders

selectProvidersForRedundancy(owner, excludeProviders) ==
    IF ~(redundancyConfigs[owner].minReplicas > 0)
    THEN Fail("StorageRegistry: redundancy not configured")
    ELSE Ok(selectProvidersLoop(excludeProviders, redundancyConfigs[owner].maxReplicas,
                                0, <<>>))

\* ---- configureRedundancy (StorageRegistry.sol:118-134)
configureRedundancyRevert(owner, minReplicas, maxReplicas, renewalWindow) ==
    IF ~(minReplicas > 0 /\ minReplicas <= maxReplicas)
    THEN "StorageRegistry: invalid replica config"
    ELSE IF ~(maxReplicas <= Len(providerList))
    THEN "StorageRegistry: not enough providers"
    ELSE ""

configureRedundancy(owner, minReplicas, maxReplicas, renewalWindow) ==
    /\ configureRedundancyRevert(owner, minReplicas, maxReplicas, renewalWindow) = ""
    /\ redundancyConfigs' = [redundancyConfigs EXCEPT ![owner] =
            [minReplicas |-> minReplicas, maxReplicas |-> maxReplicas,
             renewalWindow |-> renewalWindow]]
    /\ last' = [op |-> "configureRedundancy",
                args |-> <<owner, minReplicas, maxReplicas, renewalWindow>>]
    /\ UNCHANGED <<now, providers, providerList, deals, ownerDeals, dataReplicas>>

\* ---- createDeal (StorageRegistry.sol:147-183)
createDealRevert(owner, provider, dataCid) ==
    IF ~providers[provider].isActive
    THEN "StorageRegistry: provider not active"
    ELSE IF dataCid = EmptyBytes
    THEN "StorageRegistry: empty CID"
    ELSE ""

dealHashOf(owner, provider, dataCid, dealId) == <<owner, provider, dataCid, dealId, now>>

createDeal(owner, provider, dataCid, dealId, endEpoch, dataHash) ==
    LET dealHash == dealHashOf(owner, provider, dataCid, dealId)
        deal == [provider |-> provider, endEpoch |-> endEpoch, dataHash |-> dataHash,
                 status |-> "Pending", createdAt |-> now]
    IN  /\ createDealRevert(owner, provider, dataCid) = ""
        /\ deals' = [h \in DOMAIN deals \cup {dealHash} |->
                        IF h = dealHash THEN deal ELSE deals[h]]
        /\ ownerDeals' = [ownerDeals EXCEPT ![owner] = Append(@, dealHash)]
        /\ providers' = [providers EXCEPT ![provider].dealCount = @ + 1]
        /\ dataReplicas' = [dataReplicas EXCEPT ![dataHash] = Append(@, provider)]
        /\ last' = [op |-> "createDeal", args |-> <<owner, dealHash>>]
        /\ UNCHANGED <<now, providerList, redundancyConfigs>>

\* ---- updateDealStatus (StorageRegistry.sol:191-199)
updateDealStatusRevert(owner, dealHash) ==
    IF ~(dealAt(owner, dealHash).createdAt > 0)
    THEN "StorageRegistry: deal does not exist"
    ELSE ""

updateDealStatus(owner, dealHash, newStatus) ==
    /\ updateDealStatusRevert(owner, dealHash) = ""
    /\ deals' = [deals EXCEPT ![dealHash].status = newStatus]
    /\ last' = [op |-> "updateDealStatus", args |-> <<owner, dealHash, newStatus>>]
    /\ UNCHANGED <<now, providers, providerList, ownerDeals, redundancyConfigs,
                   dataReplicas>>

\* ---- renewDeal (StorageRegistry.sol:207-216)
renewDealRevert(owner, dealHash, newEndEpoch) ==
    IF ~(dealAt(owner, dealHash).createdAt > 0)
    THEN "StorageRegistry: deal does not exist"
    ELSE IF ~(newEndEpoch > dealAt(owner, dealHash).endEpoch)
    THEN "StorageRegistry: invalid new end epoch"
    ELSE ""

renewDeal(owner, dealHash, newEndEpoch) ==
    /\ renewDealRevert(owner, dealHash, newEndEpoch) = ""
    /\ deals' = [deals EXCEPT ![dealHash].endEpoch = newEndEpoch,
                              ![dealHash].status = "Renewed"]
    /\ last' = [op |-> "renewDeal", args |-> <<owner, dealHash, newEndEpoch>>]
    /\ UNCHANGED <<now, providers, providerList, ownerDeals, redundancyConfigs,
                   dataReplicas>>

\* ---- isRedundancyMet (StorageRegistry.sol:328-342)
\* The loop of isRedundancyMet over replicas[i .. length), activeReplicas so far.
RECURSIVE isRedundancyMetLoop(_, _, _)
isRedundancyMetLoop(replicas, i, activeReplicas) ==
    IF i <= Len(replicas)
    THEN isRedundancyMetLoop(replicas, i + 1,
            IF providers[replicas[i]].isActive THEN activeReplicas + 1
            ELSE activeReplicas)
    ELSE activeReplicas

isRedundancyMet(owner, dataHash) ==
    LET config == redundancyConfigs[owner]
    IN  IF config.minReplicas = 0 THEN TRUE
        ELSE isRedundancyMetLoop(dataReplicas[dataHash], 1, 0) >= config.minReplicas

(***************************************************************************)
(* useKeyVaultStorage (unnamed/part_004)                                   *)
(* Of a StorageProvider the model keeps address, reputation, storagePrice  *)
(* and isActive, the fields selectOptimalProviders reads; storagePrice is  *)
(* optional: << >> is undefined, <<v>> the bigint v.  Of a StorageDeal it   *)
(* keeps provider, dataCid and status.                                     *)
(***************************************************************************)
MaxHookReplicas == 3    \* minReplicas, maxReplicas and count range over 0..MaxHookReplicas

HookAddresses == {"0x1", "0x2", "0x3"}      \* StorageProvider.address
Reputations == {88, 95}                     \* StorageProvider.reputation
StoragePrices == {<< >>, <<1>>}             \* StorageProvider.storagePrice
UploadOutcomes == {"pieceCid", "no pieceCid", "rejected"}  \* how an upload ends

StorageProviders ==
    [address : HookAddresses, reputation : Reputations, storagePrice : StoragePrices,
     isActive : BOOLEAN]

HookIdle ==
    /\ hookPc = "idle"
    /\ providersData = << >>
    /\ redundancyConfig = [minReplicas |-> 3, maxReplicas |-> 5]
    /\ selectArgs = << >>
    /\ selectResult = Fail("")
    /\ storeProviders = << >>
    /\ storeI = 0
    /\ storeAttempts = << >>
    /\ storeDeals = << >>
    /\ storeResult = Fail("")

\* ---- selectOptimalProviders (part_004:136-158)
\* excludeProviders.includes(address)
includes(array, element) == \E k \in DOMAIN array : array[k] = element

\* Number(p.storagePrice || 0n)
priceNumber(p) == IF p.storagePrice = << >> THEN 0 ELSE p.storagePrice[1]

\* Mutant: the comparator without the price.
compareProvidersByReputation(a, b) ==
    b.reputation - a.reputation

\* The comparator handed to sort: negative when a comes first.
compareProviders(a, b) ==
    LET reputationDiff == b.reputation - a.reputation
    IN  IF reputationDiff # 0 THEN reputationDiff
        ELSE priceNumber(a) - priceNumber(b)

\* Array.prototype.sort is stable: an element goes behind every element that
\* does not compare greater than it.  sortInsert puts element into a sorted array.
sortInsert(sorted, element) ==
    LET before == {k \in 0..Len(sorted) :
                     \A j \in 1..k : compareProviders(sorted[j], element) <= 0}
        k == CHOOSE m \in before : \A n \in before : n <= m
    IN  SubSeq(sorted, 1, k) \o <<element>> \o SubSeq(sorted, k + 1, Len(sorted))

RECURSIVE sort(_)
sort(array) ==
    IF array = << >> THEN << >>
    ELSE sortInsert(sort(SubSeq(array, 1, Len(array) - 1)), array[Len(array)])

selectOptimalProviders(providerArray, excludeProviders, count) ==
    LET Available(p) == p.isActive /\ ~includes(excludeProviders, p.address)
        availableProviders == SelectSeq(providerArray, Available)
    IN  IF Len(availableProviders) < count
        THEN Fail("Need count providers, only availableProviders.length available")
        ELSE Ok(slice(sort(availableProviders), 0, count))

\* ---- storeWithRedundancy (part_004:163-266)
\* Mutant: a distribution with exactly minReplicas replicas fails.
storeDecideAboveMin(dealList) ==
    IF Len(dealList) <= redundancyConfig.minReplicas
    THEN Fail("Failed to meet minimum redundancy")
    ELSE Ok([replicas |-> dealList,
             redundancyMet |-> Len(dealList) >= redundancyConfig.minReplicas,
             primaryCid |-> IF dealList # << >> THEN dealList[1].dataCid ELSE ""])

\* What follows the upload loop (part_004:238-260).
storeDecide(dealList) ==
    IF Len(dealList) < redundancyConfig.minReplicas
    THEN Fail("Failed to meet minimum redundancy")
    ELSE Ok([replicas |-> dealList,
             redundancyMet |-> Len(dealList) >= redundancyConfig.minReplicas,
             primaryCid |-> IF dealList # << >> THEN dealList[1].dataCid ELSE ""])

\* The call, up to the first upload (part_004:173-196).
storeWithRedundancy(connected, loaded) ==
    LET selected == selectOptimalProviders(providersData, << >>,
                                           redundancyConfig.maxReplicas)
    IN  /\ hookPc = "ready"
        /\ storeI' = 0
        /\ storeAttempts' = << >>
        /\ storeDeals' = << >>
        /\ IF ~connected
           THEN /\ storeResult' = Fail("Wallet not connected")
                /\ hookPc' = "done"
                /\ UNCHANGED storeProviders
           ELSE IF ~loaded
           THEN /\ storeResult' = Fail("No providers available")
                /\ hookPc' = "done"
                /\ UNCHANGED storeProviders
           ELSE IF ~selected.ok
           THEN /\ storeResult' = selected
                /\ hookPc' = "done"
                /\ UNCHANGED storeProviders
           ELSE /\ storeProviders' = selected.val
                /\ IF Len(selected.val) = 0
                   THEN storeResult' = storeDecide(<< >>) /\ hookPc' = "done"
                   ELSE UNCHANGED storeResult /\ hookPc' = "uploading"
        /\ UNCHANGED <<providersData, redundancyConfig, selectArgs, selectResult>>

\* One turn of the upload loop (part_004:196-236): the upload for providers[i]
\* ends with outcome; after the last turn the result is decided.
storeUpload(outcome) ==
    LET provider == storeProviders[storeI + 1]
        deal == [provider |-> provider.address, dataCid |-> "pieceCid",
                 status |-> "active"]
        dealList == IF outcome = "pieceCid" THEN Append(storeDeals, deal) ELSE storeDeals
    IN  /\ hookPc = "uploading"
        /\ storeI < Len(storeProviders)
        /\ storeAttempts' = Append(storeAttempts, <<provider.address, outcome>>)
        /\ storeDeals' = dealList
        /\ storeI' = storeI + 1
        /\ IF storeI + 1 < Len(storeProviders)
           THEN UNCHANGED <<hookPc, storeResult>>
           ELSE storeResult' = storeDecide(dealList) /\ hookPc' = "done"
        /\ UNCHANGED <<providersData, redundancyConfig, selectArgs, selectResult,
                       storeProviders>>

(***************************************************************************)
(* SpecSSS: splitSecret followed by reconstructSecret on a list of the     *)
(* shares it returned.                                                     *)
(***************************************************************************)
MaxTotalShares == 4     \* totalShares and threshold range over 1..MaxTotalShares
MaxSecretLen == 2       \* secrets have 0..MaxSecretLen bytes
MaxRandomDraws == 8     \* at most this many generateRandomByte calls per split
SecretBytes == {0, 83}  \* the byte values secrets are made of
RandBytes == {0, 1}     \* the byte values generateRandomByte returns
KeyId == "key-1"

SeqsUpTo(S, n) == UNION {[1..k -> S] : k \in 0..n}

\* The lists of pairwise different positions of a list of n elements.
InjectiveLists(n) ==
    {l \in SeqsUpTo(1..n, n) : \A a, b \in 1..Len(l) : a # b => l[a] # l[b]}

SSSInit ==
    /\ sssPc = "input"
    /\ sssSecret \in SeqsUpTo(SecretBytes, MaxSecretLen)
    /\ sssThreshold \in 1..MaxTotalShares
    /\ sssTotal \in 1..MaxTotalShares
    /\ sssTotal * Len(sssSecret) * (sssThreshold - 1) <= MaxRandomDraws
    /\ sssShares = Fail("")
    /\ sssPicked = <<>>
    /\ sssResult = Fail("")
    /\ sssPayloads = {}

\* The state of the library where a specification does not use it.
SSSIdle ==
    /\ sssPc = "idle"
    /\ sssSecret = <<>>
    /\ sssThreshold = 0
    /\ sssTotal = 0
    /\ sssShares = Fail("")
    /\ sssPicked = <<>>
    /\ sssResult = Fail("")
    /\ sssPayloads = {}

Split ==
    /\ sssPc = "input"
    /\ \E rnd \in [(1..sssTotal) \X (1..Len(sssSecret)) \X (1..(sssThreshold - 1)) -> RandBytes] :
          sssShares' = splitSecret(sssSecret, sssThreshold, sssTotal, KeyId, rnd)
    /\ sssPc' = "split"
    /\ UNCHANGED <<sssSecret, sssThreshold, sssTotal, sssPicked, sssResult, sssPayloads>>
    /\ UNCHANGED <<chainVars, shamirVars, socialVars, vaultVars, gfVars, registryVars, hookVars, clientVars>>

Reconstruct ==
    /\ sssPc = "split"
    /\ sssShares.ok
    /\ \E l \in InjectiveLists(Len(sssShares.val)) :
          /\ sssPicked' = [k \in 1..Len(l) |-> sssShares.val[l[k]]]
          /\ sssResult' = reconstructSecret(sssPicked')
    /\ sssPc' = "reconstructed"
    /\ UNCHANGED <<sssSecret, sssThreshold, sssTotal, sssShares, sssPayloads>>
    /\ UNCHANGED <<chainVars, shamirVars, socialVars, vaultVars, gfVars, registryVars, hookVars, clientVars>>

SSSNext == Split \/ Reconstruct

SSSSpecInit == SSSInit /\ ChainInit /\ ShamirInit /\ SocialInit /\ VaultInit /\ GFIdle /\ RegistryInit /\ HookIdle /\ ClientIdle

SpecSSS == SSSSpecInit /\ [][SSSNext]_vars

(***************************************************************************)
(* SpecShamir: the calls of ShamirRecovery.sol, from any caller, in any    *)
(* order, and the passing of time.                                         *)
(***************************************************************************)
ShamirStep ==
    /\ steps < MaxShamirSteps
    /\ steps' = steps + 1
    /\ UNCHANGED <<sssVars, socialVars, vaultVars, gfVars, registryVars, hookVars, clientVars>>

ConfigureShamir ==
    /\ ShamirStep
    /\ \E owner \in ShamirOwners, threshold, totalShares \in 0..MaxShamirShares :
          configureShamir(owner, threshold, totalShares)

StoreShare ==
    /\ ShamirStep
    /\ \E owner \in ShamirOwners, shareIndex \in ShareIndexArgs,
          storageCid \in {EmptyBytes, "cid"}, storageProvider \in {ZeroAddress, "0xF"},
          shareData \in Payloads :
          storeShare(owner, shareIndex, storageCid, storageProvider, keccak256(shareData))

InitiateRecovery ==
    /\ ShamirStep
    /\ \E owner \in ShamirOwners, sender \in ShamirSenders :
          initiateRecovery(owner, sender)

SubmitShare ==
    /\ ShamirStep
    /\ \E recoveryId \in DOMAIN recoveryAttempts, shareIndex \in ShareIndexArgs,
          shareData \in Payloads :
          submitShare(recoveryId[1], recoveryId, shareIndex, shareData)

RevokeShare ==
    /\ ShamirStep
    /\ \E owner \in ShamirOwners, shareIndex \in ShareIndexArgs :
          revokeShare(owner, shareIndex)

ShamirTick ==
    /\ ShamirStep
    /\ now < MaxShamirTicks * ShamirTickStep
    /\ now' = now + ShamirTickStep
    /\ last' = [op |-> "tick", args |-> <<>>]
    /\ UNCHANGED shamirVars

ShamirNext ==
    \/ ConfigureShamir
    \/ StoreShare
    \/ InitiateRecovery
    \/ SubmitShare
    \/ RevokeShare
    \/ ShamirTick

ShamirSpecInit == SSSIdle /\ ChainInit /\ ShamirInit /\ SocialInit /\ VaultInit /\ GFIdle /\ RegistryInit /\ HookIdle /\ ClientIdle

SpecShamir == ShamirSpecInit /\ [][ShamirNext]_vars

(***************************************************************************)
(* SpecSocial: the calls of SocialRecovery.sol and the writes of           *)
(* KeyVault.owner, from any externally owned account, in any order, and    *)
(* the passing of time.  transferOwnership passes onlyRecoveryContract     *)
(* only when called by one of the two recovery contracts, and neither      *)
(* contains a call to the vault: no transaction reaches its body, so it is *)
(* not a disjunct of SocialNext.                                           *)
(***************************************************************************)
SocialStep ==
    /\ steps < MaxSocialSteps
    /\ steps' = steps + 1
    /\ UNCHANGED <<sssVars, shamirVars, vaultVars, gfVars, registryVars, hookVars, clientVars>>

ConfigureSocialRecovery ==
    /\ SocialStep
    /\ \E owner \in SocialOwners, requiredApprovals \in 0..MaxApprovals,
          hours \in 0..MaxDelayHours :
          configureSocialRecovery(owner, requiredApprovals, hours * HOUR)

AddGuardian ==
    /\ SocialStep
    /\ \E owner \in SocialOwners, guardianAddress \in GuardianArgs,
          encryptedShare \in {EmptyBytes, "enc"} :
          /\ socialConfigs[owner].totalGuardians < MaxGuardians
          /\ addGuardian(owner, guardianAddress, encryptedShare, "cid")

RemoveGuardian ==
    /\ SocialStep
    /\ \E owner \in SocialOwners, guardianIndex \in 0..MaxGuardians :
          removeGuardian(owner, guardianIndex)

ProposeRecovery ==
    /\ SocialStep
    /\ \E owner \in SocialOwners, newOwner \in NewOwnerArgs, sender \in Accounts :
          proposeRecovery(owner, newOwner, sender)

VoteRecovery ==
    /\ SocialStep
    /\ \E proposalId \in DOMAIN recoveryProposals, vote \in BOOLEAN, sender \in Accounts :
          voteRecovery(proposalId[1], proposalId, vote, sender)

ExecuteRecovery ==
    /\ SocialStep
    /\ \E proposalId \in DOMAIN recoveryProposals :
          executeRecovery(proposalId[1], proposalId)

RejectRecovery ==
    /\ SocialStep
    /\ \E proposalId \in DOMAIN recoveryProposals :
          rejectRecovery(proposalId[1], proposalId)

EmergencyTransferOwnership ==
    /\ SocialStep
    /\ \E sender \in Accounts, newOwner \in NewOwnerArgs :
          emergencyTransferOwnership(sender, newOwner)

SocialTick ==
    /\ SocialStep
    /\ now < MaxSocialTicks * HOUR
    /\ now' = now + HOUR
    /\ last' = [op |-> "tick", args |-> <<>>]
    /\ UNCHANGED socialVars

SocialNext ==
    \/ ConfigureSocialRecovery
    \/ AddGuardian
    \/ RemoveGuardian
    \/ ProposeRecovery
    \/ VoteRecovery
    \/ ExecuteRecovery
    \/ RejectRecovery
    \/ EmergencyTransferOwnership
    \/ SocialTick

SocialSpecInit == SSSIdle /\ ChainInit /\ ShamirInit /\ SocialInit /\ VaultInit /\ GFIdle /\ RegistryInit /\ HookIdle /\ ClientIdle

SpecSocial == SocialSpecInit /\ [][SocialNext]_vars

(***************************************************************************)
(* SpecSocialBlock: the calls of SocialRecovery.sol that can succeed       *)
(* within the block that follows the deployment: block.timestamp stays     *)
(* what it is.  executeRecovery is not among them: a proposal's deadline   *)
(* is at least one hour after the block that created it.  Every behaviour  *)
(* of this specification is a behaviour of the contract, with up to        *)
(* MaxBlockGuardians guardians.                                            *)
(***************************************************************************)
MaxBlockGuardians == 3  \* addGuardian is called while totalGuardians < MaxBlockGuardians
MaxBlockSteps == 9      \* the block holds at most this many successful calls
BlockGuardianArgs == {ZeroAddress, "0xB", "0xC", "0xD"}     \* the guardianAddress argument

BlockStep ==
    /\ steps < MaxBlockSteps
    /\ steps' = steps + 1
    /\ UNCHANGED <<sssVars, shamirVars, vaultVars, gfVars, registryVars, hookVars, clientVars>>

BlockConfigureSocialRecovery ==
    /\ BlockStep
    /\ \E owner \in SocialOwners, requiredApprovals \in 0..MaxApprovals,
          hours \in 0..MaxDelayHours :
          configureSocialRecovery(owner, requiredApprovals, hours * HOUR)

BlockAddGuardian ==
    /\ BlockStep
    /\ \E owner \in SocialOwners, guardianAddress \in BlockGuardianArgs :
          /\ socialConfigs[owner].totalGuardians < MaxBlockGuardians
          /\ addGuardian(owner, guardianAddress, "enc", "cid")

BlockProposeRecovery ==
    /\ BlockStep
    /\ \E owner \in SocialOwners, newOwner \in NewOwnerArgs, sender \in Accounts :
          proposeRecovery(owner, newOwner, sender)

BlockVoteRecovery ==
    /\ BlockStep
    /\ \E proposalId \in DOMAIN recoveryProposals, vote \in BOOLEAN, sender \in Accounts :
          voteRecovery(proposalId[1], proposalId, vote, sender)

BlockRejectRecovery ==
    /\ BlockStep
    /\ \E proposalId \in DOMAIN recoveryProposals :
          rejectRecovery(proposalId[1], proposalId)

SocialBlockNext ==
    \/ BlockConfigureSocialRecovery
    \/ BlockAddGuardian
    \/ BlockProposeRecovery
    \/ BlockVoteRecovery
    \/ BlockRejectRecovery

SpecSocialBlock == SocialSpecInit /\ [][SocialBlockNext]_vars

(***************************************************************************)
(* SpecSocialDeadline: the calls of SpecSocialBlock with up to             *)
(* MaxBlockGuardians guardians, the passing of time and executeRecovery.   *)
(***************************************************************************)
MaxDeadlineTicks == 1   \* passings of time, of one hour each

DeadlineTick ==
    /\ BlockStep
    /\ now < MaxDeadlineTicks * HOUR
    /\ now' = now + HOUR
    /\ last' = [op |-> "tick", args |-> <<>>]
    /\ UNCHANGED socialVars

DeadlineExecuteRecovery ==
    /\ BlockStep
    /\ \E proposalId \in DOMAIN recoveryProposals :
          executeRecovery(proposalId[1], proposalId)

SocialDeadlineNext == SocialBlockNext \/ DeadlineTick \/ DeadlineExecuteRecovery

SpecSocialDeadline == SocialSpecInit /\ [][SocialDeadlineNext]_vars

(***************************************************************************)
(* SpecVault: the calls of KeyVault.sol from any externally owned account, *)
(* addGuardian of SocialRecovery.sol, and the passing of time.             *)
(***************************************************************************)
VaultStep ==
    /\ steps < MaxVaultSteps
    /\ steps' = steps + 1
    /\ UNCHANGED <<sssVars, gfVars, registryVars, hookVars, clientVars>>

StoreKey ==
    /\ VaultStep
    /\ keyCount < MaxKeys
    /\ \E sender \in VaultSenders : storeKey(sender)

EnableShamirRecovery ==
    /\ VaultStep
    /\ \E sender \in VaultSenders, keyId \in 0..(MaxKeys + 1),
          threshold \in 0..MaxShamirShares :
          enableShamirRecovery(sender, keyId, threshold, MaxShamirShares)

EnableSocialRecovery ==
    /\ VaultStep
    /\ \E sender \in VaultSenders, keyId \in 0..(MaxKeys + 1),
          requiredApprovals \in 0..MaxApprovals, hours \in 0..MaxDelayHours :
          enableSocialRecovery(sender, keyId, requiredApprovals, hours * HOUR)

SetRecoveryMethod ==
    /\ VaultStep
    /\ \E sender \in VaultSenders, method \in RecoveryMethod :
          setRecoveryMethod(sender, method)

VaultInitiateRecovery ==
    /\ VaultStep
    /\ \E sender \in VaultSenders, keyId \in 0..(MaxKeys + 1), method \in RecoveryMethod :
          KeyVault_initiateRecovery(sender, keyId, method)

VaultEmergencyTransferOwnership ==
    /\ VaultStep
    /\ \E sender \in VaultSenders, newOwner \in VaultNewOwnerArgs :
          /\ emergencyTransferOwnership(sender, newOwner)
          /\ UNCHANGED <<shamirVars, vaultVars>>

VaultAddGuardian ==
    /\ VaultStep
    /\ \E owner \in VaultOwners, guardianAddress \in VaultGuardianArgs :
          /\ socialConfigs[owner].totalGuardians < MaxGuardians
          /\ addGuardian(owner, guardianAddress, "enc", "cid")
          /\ UNCHANGED <<shamirVars, vaultVars>>

VaultTick ==
    /\ VaultStep
    /\ now < MaxVaultTicks * HOUR
    /\ now' = now + HOUR
    /\ last' = [op |-> "tick", args |-> <<>>]
    /\ UNCHANGED <<shamirVars, socialVars, vaultVars>>

VaultNext ==
    \/ StoreKey
    \/ EnableShamirRecovery
    \/ EnableSocialRecovery
    \/ SetRecoveryMethod
    \/ VaultInitiateRecovery
    \/ VaultEmergencyTransferOwnership
    \/ VaultAddGuardian
    \/ VaultTick

VaultSpecInit == SSSIdle /\ ChainInit /\ ShamirInit /\ VaultSocialInit /\ VaultInit /\ GFIdle /\ RegistryInit /\ HookIdle /\ ClientIdle

SpecVault == VaultSpecInit /\ [][VaultNext]_vars

(***************************************************************************)
(* SpecGF256: one call of GF256.multiply or GF256.divide                   *)
(* (shamirSecretSharing.ts:42-55) on any two field elements.               *)
(***************************************************************************)
GFInit ==
    /\ gfPc = "input"
    /\ gfOp = ""
    /\ gfA \in GFElements
    /\ gfB \in GFElements
    /\ gfResult = Fail("")

GFStep ==
    /\ gfPc = "input"
    /\ gfPc' = "done"
    /\ UNCHANGED <<gfA, gfB>>
    /\ UNCHANGED <<sssVars, chainVars, shamirVars, socialVars, vaultVars, registryVars, hookVars, clientVars>>

Multiply ==
    /\ GFStep
    /\ gfOp' = "multiply"
    /\ gfResult' = Ok(GF256_multiply(gfA, gfB))

Divide ==
    /\ GFStep
    /\ gfOp' = "divide"
    /\ gfResult' = GF256_divide(gfA, gfB)

GFNext == Multiply \/ Divide

GFSpecInit == SSSIdle /\ ChainInit /\ ShamirInit /\ SocialInit /\ VaultInit /\ GFInit /\ RegistryInit /\ HookIdle /\ ClientIdle

SpecGF256 == GFSpecInit /\ [][GFNext]_vars

(***************************************************************************)
(* SpecRegistry: the calls of StorageRegistry.sol, from any caller, in any *)
(* order, and the passing of time.                                         *)
(***************************************************************************)
RegistryStep ==
    /\ steps < MaxRegistrySteps
    /\ steps' = steps + 1
    /\ UNCHANGED <<sssVars, shamirVars, socialVars, vaultVars, gfVars, hookVars, clientVars>>

RegisterProvider ==
    /\ RegistryStep
    /\ \E providerAddress \in ProviderArgs : registerProvider(providerAddress)

DeactivateProvider ==
    /\ RegistryStep
    /\ \E providerAddress \in ProviderArgs : deactivateProvider(providerAddress)

ConfigureRedundancy ==
    /\ RegistryStep
    /\ \E owner \in RegistryOwners, minReplicas, maxReplicas \in 0..MaxReplicas,
          renewalWindow \in 0..MaxRenewalWindow :
          configureRedundancy(owner, minReplicas, maxReplicas, renewalWindow)

CreateDeal ==
    /\ RegistryStep
    /\ \E owner \in RegistryOwners, provider \in ProviderArgs,
          dataCid \in {EmptyBytes, "cid"}, dealId \in DealIds,
          endEpoch \in 0..MaxEndEpoch, dataHash \in DataHashes :
          createDeal(owner, provider, dataCid, dealId, endEpoch, dataHash)

UpdateDealStatus ==
    /\ RegistryStep
    /\ \E dealHash \in DOMAIN deals, newStatus \in DealStatus :
          updateDealStatus(dealHash[1], dealHash, newStatus)

RenewDeal ==
    /\ RegistryStep
    /\ \E dealHash \in DOMAIN deals, newEndEpoch \in 0..(MaxEndEpoch + 1) :
          renewDeal(dealHash[1], dealHash, newEndEpoch)

RegistryTick ==
    /\ RegistryStep
    /\ now < RegistryGenesis + MaxRegistryTicks
    /\ now' = now + 1
    /\ last' = [op |-> "tick", args |-> <<>>]
    /\ UNCHANGED registryVars

RegistryNext ==
    \/ RegisterProvider
    \/ DeactivateProvider
    \/ ConfigureRedundancy
    \/ CreateDeal
    \/ UpdateDealStatus
    \/ RenewDeal
    \/ RegistryTick

RegistryChainInit ==
    /\ now = RegistryGenesis
    /\ steps = 0
    /\ last = [op |-> "constructor", args |-> <<>>]

RegistrySpecInit ==
    SSSIdle /\ RegistryChainInit /\ ShamirInit /\ SocialInit /\ VaultInit /\ GFIdle
    /\ RegistryInit /\ HookIdle /\ ClientIdle

SpecRegistry == RegistrySpecInit /\ [][RegistryNext]_vars

(***************************************************************************)
(* SpecStorage: the hook useKeyVaultStorage with any provider list and any *)
(* redundancyConfig; one call of selectOptimalProviders, or one call of    *)
(* storeWithRedundancy whose uploads end in any way.                       *)
(***************************************************************************)
\* The lists of providers with distinct addresses.
ProviderLists ==
    UNION {{l \in [1..n -> StorageProviders] :
               \A i, j \in 1..n : i # j => l[i].address # l[j].address} :
           n \in 0..Cardinality(HookAddresses)}

HookInit ==
    /\ hookPc = "ready"
    /\ providersData \in ProviderLists
    /\ redundancyConfig \in [minReplicas : 0..MaxHookReplicas,
                             maxReplicas : 0..MaxHookReplicas]
    /\ selectArgs = << >>
    /\ selectResult = Fail("")
    /\ storeProviders = << >>
    /\ storeI = 0
    /\ storeAttempts = << >>
    /\ storeDeals = << >>
    /\ storeResult = Fail("")

HookStep ==
    UNCHANGED <<sssVars, chainVars, shamirVars, socialVars, vaultVars, gfVars,
                registryVars, clientVars>>

SelectOptimalProviders ==
    /\ HookStep
    /\ hookPc = "ready"
    /\ \E excludeProviders \in {<< >>} \cup {<<a>> : a \in HookAddresses},
          count \in 0..MaxHookReplicas :
          /\ selectArgs' = <<excludeProviders, count>>
          /\ selectResult' = selectOptimalProviders(providersData, excludeProviders, count)
    /\ hookPc' = "selected"
    /\ UNCHANGED <<providersData, redundancyConfig, storeProviders, storeI,
                   storeAttempts, storeDeals, storeResult>>

StoreWithRedundancy ==
    /\ HookStep
    /\ \E connected, loaded \in BOOLEAN : storeWithRedundancy(connected, loaded)

StoreUpload ==
    /\ HookStep
    /\ \E outcome \in UploadOutcomes : storeUpload(outcome)

HookNext == SelectOptimalProviders \/ StoreWithRedundancy \/ StoreUpload

HookSpecInit ==
    SSSIdle /\ ChainInit /\ ShamirInit /\ SocialInit /\ VaultInit /\ GFIdle
    /\ RegistryInit /\ HookInit /\ ClientIdle

SpecStorage == HookSpecInit /\ [][HookNext]_vars

(***************************************************************************)
(* SpecReconstruct: reconstructSecret on any list of shares, whatever      *)
(* their indices, payloads and thresholds.                                 *)
(***************************************************************************)
MaxGivenShares == 3     \* the list handed to reconstructSecret has 0..MaxGivenShares shares

GivenIndexes == {0, 1, 2, 255}      \* ShamirShare.x
GivenThresholds == {2, 3}           \* ShamirShare.threshold

GivenShares ==
    [x : GivenIndexes, y : SeqsUpTo(SecretBytes, 1), threshold : GivenThresholds,
     totalShares : {MaxGivenShares}, keyId : {KeyId}]

GivenInit ==
    /\ sssPc = "given"
    /\ sssSecret = <<>>
    /\ sssThreshold = 0
    /\ sssTotal = 0
    /\ sssShares = Fail("")
    /\ sssPicked \in SeqsUpTo(GivenShares, MaxGivenShares)
    /\ sssResult = Fail("")
    /\ sssPayloads = {}

ReconstructGiven ==
    /\ sssPc = "given"
    /\ sssResult' = reconstructSecret(sssPicked)
    /\ sssPc' = "reconstructedGiven"
    /\ UNCHANGED <<sssSecret, sssThreshold, sssTotal, sssShares, sssPicked, sssPayloads>>
    /\ UNCHANGED <<chainVars, shamirVars, socialVars, vaultVars, gfVars, registryVars,
                   hookVars, clientVars>>

ReconstructNext == ReconstructGiven

ReconstructSpecInit ==
    GivenInit /\ ChainInit /\ ShamirInit /\ SocialInit /\ VaultInit /\ GFIdle
    /\ RegistryInit /\ HookIdle /\ ClientIdle

SpecReconstruct == ReconstructSpecInit /\ [][ReconstructNext]_vars

(***************************************************************************)
(* SpecOwners: the calls of ShamirRecovery.sol and SocialRecovery.sol for  *)
(* two owners, each call for either owner with the recovery and proposal   *)
(* ids of either, and the passing of time.                                 *)
(***************************************************************************)
MaxOwnersSteps == 5     \* a run makes at most this many successful calls and passings of time

OwnerArgs == {"0xA", "0xB"}             \* the owner argument
OwnerGuardians == {"0xC", "0xD"}        \* guardians and senders

OwnersStep ==
    /\ steps < MaxOwnersSteps
    /\ steps' = steps + 1
    /\ UNCHANGED <<sssVars, vaultVars, gfVars, registryVars, hookVars, clientVars>>

OwnersShamirCall ==
    /\ OwnersStep
    /\ UNCHANGED socialVars
    /\ \E owner \in OwnerArgs :
          \/ \E threshold \in 1..MaxShamirShares :
                configureShamir(owner, threshold, MaxShamirShares)
          \/ storeShare(owner, 1, "cid", "0xF", keccak256("share-1"))
          \/ initiateRecovery(owner, "0xC")
          \/ \E recoveryId \in DOMAIN recoveryAttempts :
                submitShare(owner, recoveryId, 1, "share-1")
          \/ revokeShare(owner, 1)

OwnersSocialCall ==
    /\ OwnersStep
    /\ UNCHANGED shamirVars
    /\ \E owner \in OwnerArgs :
          \/ \E requiredApprovals \in 1..MaxApprovals :
                configureSocialRecovery(owner, requiredApprovals, HOUR)
          \/ \E guardianAddress \in OwnerGuardians :
                addGuardian(owner, guardianAddress, "enc", "cid")
          \/ removeGuardian(owner, 0)
          \/ \E sender \in OwnerGuardians : proposeRecovery(owner, "0xD", sender)
          \/ \E proposalId \in DOMAIN recoveryProposals, sender \in OwnerGuardians :
                voteRecovery(owner, proposalId, FALSE, sender)
          \/ \E proposalId \in DOMAIN recoveryProposals :
                \/ executeRecovery(owner, proposalId)
                \/ rejectRecovery(owner, proposalId)

OwnersTick ==
    /\ OwnersStep
    /\ now < HOUR
    /\ now' = now + HOUR
    /\ last' = [op |-> "tick", args |-> <<>>]
    /\ UNCHANGED <<shamirVars, socialVars>>

OwnersNext == OwnersShamirCall \/ OwnersSocialCall \/ OwnersTick

OwnersSpecInit ==
    SSSIdle /\ ChainInit /\ ShamirInit /\ VaultSocialInit /\ VaultInit /\ GFIdle
    /\ RegistryInit /\ HookIdle /\ ClientIdle

SpecOwners == OwnersSpecInit /\ [][OwnersNext]_vars

(***************************************************************************)
(* SpecSecrecy: splitSecret and reconstructSecret as in SpecSSS, for the   *)
(* secrets and thresholds whose every possible share payload can be        *)
(* enumerated: generateRandomByte returns any byte, and the payload of a   *)
(* share is computed from the bytes drawn while that share is built.       *)
(***************************************************************************)
MaxSecrecyShares == 3   \* totalShares ranges over 2..MaxSecrecyShares

\* One-byte secrets: splitSecret treats every byte of a secret alike, and a
\* share of a one-byte secret draws threshold - 1 random bytes.
SecrecySecrets == {<<byte>> : byte \in SecretBytes}

\* Every payload splitSecret can give the share shareIndex of secret: one for
\* each choice of the bytes generateRandomByte returns while it is built.
sharePayloads(secret, threshold, shareIndex) ==
    {splitShareData(secret, threshold, shareIndex, rnd) :
        rnd \in [{shareIndex} \X (1..Len(secret)) \X (1..(threshold - 1)) -> GFElements]}

\* sssPayloads holds <<<<secret, threshold, shareIndex>>, sharePayloads>> for
\* every secret, threshold and share index of the specification.
SecrecyInit ==
    /\ sssPayloads = {<<c, sharePayloads(c[1], c[2], c[3])>> :
                         c \in SecrecySecrets \X (2..3) \X (1..MaxSecrecyShares)}
    /\ sssPc = "input"
    /\ sssSecret \in SecrecySecrets
    /\ sssThreshold \in 2..3
    /\ sssTotal \in sssThreshold..MaxSecrecyShares
    /\ sssShares = Fail("")
    /\ sssPicked = <<>>
    /\ sssResult = Fail("")

payloadsOf(secret, threshold, shareIndex) ==
    (CHOOSE entry \in sssPayloads : entry[1] = <<secret, threshold, shareIndex>>)[2]

SecrecySpecInit ==
    SecrecyInit /\ ChainInit /\ ShamirInit /\ SocialInit /\ VaultInit /\ GFIdle
    /\ RegistryInit /\ HookIdle /\ ClientIdle

SpecSecrecy == SecrecySpecInit /\ [][SSSNext]_vars

(***************************************************************************)
(* SpecSubmit: the submitShare mutation of the hook useShamirRecovery      *)
(* (part_002:313-354).  A call closes over the state of the render it is   *)
(* made from and runs later, when the mutation executes; its setState      *)
(* updater is applied to the state of that moment.  Each setState is       *)
(* rendered before the next call is made.                                  *)
(***************************************************************************)
MaxSubmitCalls == 3     \* submitShare calls in a run
MaxShareIndex == 3      \* share.x ranges over 1..MaxShareIndex

\* The body of mutationFn: state is the closure's, prev the updater's argument.
submitShareMutation(state, prev, share) ==
    IF state.id = "" THEN Fail("No active recovery attempt")
    ELSE IF \E k \in 1..Len(state.collectedShares) : state.collectedShares[k].x = share.x
    THEN Fail("Share already submitted")
    ELSE LET updatedShares == Append(state.collectedShares, share)
         IN  Ok([prev EXCEPT !.collectedShares = updatedShares,
                             !.isComplete = Len(updatedShares) >= prev.requiredShares])

\* The hook after construction or after initiateRecovery (part_002:293-301).
SubmitInit ==
    /\ recoveryAttempt \in
          {[id |-> "", collectedShares |-> <<>>, requiredShares |-> 0, isComplete |-> FALSE]}
          \cup [id : {"0xrec"}, collectedShares : {<<>>}, requiredShares : {2, 3},
                isComplete : {FALSE}]
    /\ submitCalls = <<>>
    /\ activeProposals = <<>>
    /\ voteCalls = <<>>
    /\ dateNow = 0
    /\ dealObjects = <<>>
    /\ renewResult = Fail("")

SubmitStep ==
    /\ UNCHANGED <<activeProposals, voteCalls, dateNow, dealObjects, renewResult>>
    /\ UNCHANGED <<sssVars, chainVars, shamirVars, socialVars, vaultVars, gfVars,
                   registryVars, hookVars>>

\* submitShare is called: the mutation function of the current render is
\* queued.  inFlight is the set of the calls that have not run yet.
SubmitShareCall ==
    /\ SubmitStep
    /\ Len(submitCalls) < MaxSubmitCalls
    /\ \E x \in 1..MaxShareIndex :
          submitCalls' = Append(submitCalls,
              [share |-> [x |-> x], state |-> recoveryAttempt, pc |-> "pending",
               inFlight |-> {k \in 1..Len(submitCalls) : submitCalls[k].pc = "pending"}])
    /\ UNCHANGED recoveryAttempt

\* A queued call runs.
SubmitShareRun ==
    /\ SubmitStep
    /\ \E i \in 1..Len(submitCalls) :
          /\ submitCalls[i].pc = "pending"
          /\ LET r == submitShareMutation(submitCalls[i].state, recoveryAttempt, submitCalls[i].share)
             IN  /\ recoveryAttempt' = IF r.ok THEN r.val ELSE recoveryAttempt
                 /\ submitCalls' =
                       [submitCalls EXCEPT ![i].pc = IF r.ok THEN "accepted" ELSE "rejected"]

SubmitNext == SubmitShareCall \/ SubmitShareRun

SubmitSpecInit ==
    SSSIdle /\ ChainInit /\ ShamirInit /\ SocialInit /\ VaultInit /\ GFIdle
    /\ RegistryInit /\ HookIdle /\ SubmitInit

SpecSubmit == SubmitSpecInit /\ [][SubmitNext]_vars

(***************************************************************************)
(* SpecVote: the voteOnProposal mutation of the hook useSocialRecovery     *)
(* (StorageRegistry.sol:1117-1167 of the source tree) with                 *)
(* SocialRecoveryUtils.canGuardianVote (part_005:550-564).  As in          *)
(* SpecSubmit a call closes over the state of the render it is made from   *)
(* and its setState updater is applied to the state of the moment it runs. *)
(***************************************************************************)
MaxVoteCalls == 3       \* voteOnProposal calls in a run
MaxDateNow == 2         \* Date.now() / 1000 ranges over 0..MaxDateNow

VoteAddresses == {"0xG1", "0xG2"}
VoteProposalId == "0xprop"

\* dateNowSeconds is Math.floor(Date.now() / 1000): Date.now() >= deadline * 1000
\* exactly when dateNowSeconds >= deadline.
canGuardianVote(proposal, guardianAddress, dateNowSeconds) ==
    IF ~proposal.isActive THEN FALSE
    ELSE IF dateNowSeconds >= proposal.deadline THEN FALSE
    ELSE IF guardianAddress \in DOMAIN proposal.guardianVotes THEN FALSE
    ELSE TRUE

\* The body of mutationFn: state is the closure's, prev the updater's argument.
voteOnProposalMutation(state, prev, address, proposalId, vote, dateNowSeconds) ==
    IF address = "" THEN Fail("Wallet not connected")
    ELSE IF ~\E k \in 1..Len(state) : state[k].id = proposalId
    THEN Fail("Proposal not found")
    ELSE LET proposal ==
                 state[CHOOSE k \in 1..Len(state) :
                           /\ state[k].id = proposalId
                           /\ \A m \in 1..(k - 1) : state[m].id # proposalId]
         IN  IF ~canGuardianVote(proposal, address, dateNowSeconds)
             THEN Fail("Cannot vote on this proposal")
             ELSE Ok([k \in 1..Len(prev) |->
                        IF prev[k].id = proposalId
                        THEN [prev[k] EXCEPT
                                 !.votesFor = IF vote THEN @ + 1 ELSE @,
                                 !.votesAgainst = IF vote THEN @ ELSE @ + 1,
                                 !.guardianVotes = (address :> vote) @@ @]
                        ELSE prev[k]])

\* The hook as constructed, or holding the proposal createProposal has made
\* (StorageRegistry.sol:1073-1099).
VoteInit ==
    /\ activeProposals \in
          {<<>>} \cup
          {<<[id |-> VoteProposalId, votesFor |-> 0, votesAgainst |-> 0,
              deadline |-> deadline, isExecuted |-> FALSE, isActive |-> TRUE,
              guardianVotes |-> <<>>]>> : deadline \in 1..MaxDateNow}
    /\ voteCalls = <<>>
    /\ dateNow = 0
    /\ recoveryAttempt =
          [id |-> "", collectedShares |-> <<>>, requiredShares |-> 0, isComplete |-> FALSE]
    /\ submitCalls = <<>>
    /\ dealObjects = <<>>
    /\ renewResult = Fail("")

VoteStep ==
    /\ UNCHANGED <<recoveryAttempt, submitCalls, dealObjects, renewResult>>
    /\ UNCHANGED <<sssVars, chainVars, shamirVars, socialVars, vaultVars, gfVars,
                   registryVars, hookVars>>

\* voteOnProposal is called: the mutation function of the current render is
\* queued.  inFlight is the set of the calls that have not run yet.
VoteOnProposalCall ==
    /\ VoteStep
    /\ Len(voteCalls) < MaxVoteCalls
    /\ \E address \in VoteAddresses \cup {""}, vote \in BOOLEAN :
          voteCalls' = Append(voteCalls,
              [address |-> address, vote |-> vote, state |-> activeProposals,
               pc |-> "pending",
               inFlight |-> {k \in 1..Len(voteCalls) : voteCalls[k].pc = "pending"}])
    /\ UNCHANGED <<activeProposals, dateNow>>

\* A queued call runs.
VoteOnProposalRun ==
    /\ VoteStep
    /\ \E i \in 1..Len(voteCalls) :
          /\ voteCalls[i].pc = "pending"
          /\ LET r == voteOnProposalMutation(voteCalls[i].state, activeProposals,
                          voteCalls[i].address, VoteProposalId, voteCalls[i].vote, dateNow)
             IN  /\ activeProposals' = IF r.ok THEN r.val ELSE activeProposals
                 /\ voteCalls' =
                       [voteCalls EXCEPT ![i].pc = IF r.ok THEN "accepted" ELSE "rejected"]
    /\ UNCHANGED dateNow

VoteTick ==
    /\ VoteStep
    /\ dateNow < MaxDateNow
    /\ dateNow' = dateNow + 1
    /\ UNCHANGED <<activeProposals, voteCalls>>

VoteNext == VoteOnProposalCall \/ VoteOnProposalRun \/ VoteTick

VoteSpecInit ==
    SSSIdle /\ ChainInit /\ ShamirInit /\ SocialInit /\ VaultInit /\ GFIdle
    /\ RegistryInit /\ HookIdle /\ VoteInit

SpecVote == VoteSpecInit /\ [][VoteNext]_vars

(***************************************************************************)
(* SpecRenew: the renewDeals mutation of the hook useKeyVaultStorage       *)
(* (part_004:313-358) called again and again on the same StorageDeal       *)
(* objects, which it changes in place.  Time is counted in days:           *)
(* endEpoch, Date.now() and renewalWindow are in days, so that             *)
(* persistencePeriod * 24 * 60 * 60 seconds are persistencePeriod days.    *)
(***************************************************************************)
MaxRenewSteps == 4          \* renewDeals calls and passings of time in a run
MaxPersistencePeriod == 2   \* config.persistencePeriod ranges over 1..MaxPersistencePeriod
MaxHookDeals == 2           \* the caller holds 1..MaxHookDeals deals

\* The body of mutationFn: the value returned and the deals as it leaves them.
renewDealsMutation(dealList, connected, nowDays, renewalWindow, persistencePeriod) ==
    IF ~connected THEN [result |-> Fail("Wallet not connected"), deals |-> dealList]
    ELSE LET renewalThreshold == nowDays + renewalWindow
             expiringDeals ==
                 {k \in 1..Len(dealList) :
                     /\ dealList[k].endEpoch <= renewalThreshold
                     /\ dealList[k].status = "active"}
         IN  IF Cardinality(expiringDeals) = 0
             THEN [result |-> Ok([renewed |-> 0, message |-> "No deals need renewal"]),
                   deals |-> dealList]
             ELSE [result |-> Ok([renewed |-> Cardinality(expiringDeals),
                                  total |-> Cardinality(expiringDeals)]),
                   deals |-> [k \in 1..Len(dealList) |->
                                 IF k \in expiringDeals
                                 THEN [dealList[k] EXCEPT
                                          !.endEpoch = nowDays + persistencePeriod,
                                          !.status = "renewed"]
                                 ELSE dealList[k]]]

\* The deals storeWithRedundancy has created (part_004:214-227), some of
\* them marked failed or expired since.
RenewInit ==
    /\ dealObjects \in
          UNION {[1..n -> [endEpoch : 1..MaxPersistencePeriod,
                           status : {"active", "failed", "expired"}]] : n \in 1..MaxHookDeals}
    /\ renewResult = Fail("")
    /\ dateNow = 0
    /\ recoveryAttempt =
          [id |-> "", collectedShares |-> <<>>, requiredShares |-> 0, isComplete |-> FALSE]
    /\ submitCalls = <<>>
    /\ activeProposals = <<>>
    /\ voteCalls = <<>>

RenewStep ==
    /\ steps < MaxRenewSteps
    /\ steps' = steps + 1
    /\ UNCHANGED now
    /\ UNCHANGED <<recoveryAttempt, submitCalls, activeProposals, voteCalls>>
    /\ UNCHANGED <<sssVars, shamirVars, socialVars, vaultVars, gfVars, registryVars,
                   hookVars>>

RenewDeals ==
    /\ RenewStep
    /\ \E connected \in BOOLEAN, renewalWindow \in 0..MaxRenewalWindow,
          persistencePeriod \in 1..MaxPersistencePeriod :
          LET r == renewDealsMutation(dealObjects, connected, dateNow, renewalWindow,
                                      persistencePeriod)
          IN  /\ renewResult' = r.result
              /\ dealObjects' = r.deals
              /\ last' = [op |-> "renewDeals",
                          args |-> <<connected, renewalWindow, persistencePeriod>>]
    /\ UNCHANGED dateNow

RenewTick ==
    /\ RenewStep
    /\ dateNow < MaxDateNow
    /\ dateNow' = dateNow + 1
    /\ last' = [op |-> "tick", args |-> <<>>]
    /\ UNCHANGED <<dealObjects, renewResult>>

RenewNext == RenewDeals \/ RenewTick

RenewSpecInit ==
    SSSIdle /\ ChainInit /\ ShamirInit /\ SocialInit /\ VaultInit /\ GFIdle
    /\ RegistryInit /\ HookIdle /\ RenewInit

SpecRenew == RenewSpecInit /\ [][RenewNext]_vars

(***************************************************************************)
(* Claims checked under SpecSSS                                            *)
(***************************************************************************)
\* The list handed to reconstructSecret holds exactly M shares of the split.
PickedExactlyThreshold ==
    /\ sssPc = "reconstructed"
    /\ Len(sssPicked) = sssThreshold

\* C1: round trip. For every non-empty secret, every valid (M, N), every choice
\* of the random coefficients and every list of exactly M of the N shares
\* returned by splitSecret, reconstructSecret returns the secret byte for byte.
C1_RoundTrip ==
    PickedExactlyThreshold => (sssResult.ok /\ sssResult.val = sssSecret)

\* C6: threshold. reconstructSecret given at least one and fewer than M of the
\* shares of a split with threshold M fails with the insufficient-shares error
\* and returns no byte sequence.
C6_FewerThanThresholdFails ==
    (/\ sssPc = "reconstructed"
     /\ Len(sssPicked) >= 1
     /\ Len(sssPicked) < sssThreshold)
    => (/\ ~sssResult.ok
        /\ sssResult.err = "Insufficient shares"
        /\ sssResult.val = <<>>)

\* C6 witness: a split with threshold 3 reconstructed from 2 of its shares.
C6_Witness ==
    /\ sssPc = "reconstructed"
    /\ sssThreshold = 3
    /\ Len(sssPicked) = 2
    /\ ~sssResult.ok

\* The list with the elements of list in the order p of its positions.
Permuted(list, p) == [k \in 1..Len(p) |-> list[p[k]]]

\* C14: order independence. For every list of at least M shares of one split,
\* reconstructSecret succeeds, returns the same result for every permutation
\* of the list, and returns the result it returns for the first M shares alone.
C14_OrderIndependent ==
    (sssPc = "reconstructed" /\ Len(sssPicked) >= sssThreshold) =>
        /\ sssResult.ok
        /\ \A p \in InjectiveLists(Len(sssPicked)) :
              Len(p) = Len(sssPicked)
                  => reconstructSecret(Permuted(sssPicked, p)) = sssResult
        /\ reconstructSecret(slice(sssPicked, 0, sssThreshold)) = sssResult

(***************************************************************************)
(* Claims checked under SpecShamir                                         *)
(***************************************************************************)
\* Share index i of owner was stored and then revoked.
RevokedShare(owner, i) ==
    /\ shares[owner][i].shareIndex = i
    /\ ~shares[owner][i].isActive

\* C2: a session's submitted-share count equals the number of distinct share
\* indices submitShare accepted for it, so a session is complete only if at
\* least requiredShares distinct indices were submitted.
C2_CountIsDistinctIndices ==
    \A id \in DOMAIN recoveryAttempts :
        /\ recoveryAttempts[id].submittedShares = Cardinality(acceptedIndices[id])
        /\ recoveryAttempts[id].isComplete =>
              Cardinality(acceptedIndices[id]) >= recoveryAttempts[id].requiredShares

\* C8: revocation is permanent. A share index that was revoked is not active in
\* the next state, whatever the step (storeShare on the same index included).
C8_RevocationPermanent ==
    [][\A owner \in ShamirOwners, i \in ShareIndexes :
          RevokedShare(owner, i) => ~shares'[owner][i].isActive]_vars

\* C9: a revoked share is invalid for every session of its owner: it cannot be
\* submitted, a copy submitted before the revocation is not returned by a
\* complete session, and it does not count toward the session's threshold.
C9_RevokedShareInvalidEverywhere ==
    \A id \in DOMAIN recoveryAttempts, i \in ShareIndexes :
        RevokedShare(id[1], i) =>
            /\ \A shareData \in Payloads : submitShareRevert(id[1], id, i, shareData) # ""
            /\ LET returned == getSubmittedShareData(id[1], id, i)
               IN  returned.ok => returned.val = EmptyBytes
            /\ recoveryAttempts[id].submittedShares <=
                  Cardinality({j \in acceptedIndices[id] : ~RevokedShare(id[1], j)})

\* C10: revokeShare on a share that is not active (revoked already, or never
\* stored) fails with share-not-active; a revokeShare that succeeded cannot be
\* repeated; and a revokeShare call leaves every other share record, of that
\* owner and of the other owners, unchanged.
C10_RevokeNotActiveFails ==
    \A owner \in ShamirOwners, i \in ShareIndexArgs :
        ~shareAt(owner, i).isActive =>
            revokeShareRevert(owner, i) = "ShamirRecovery: share not active"

C10_RevokeStep ==
    last'.op = "revokeShare" =>
        /\ \A owner \in ShamirOwners, i \in ShareIndexes :
              <<owner, i>> # last'.args => shares'[owner][i] = shares[owner][i]
        /\ shares[last'.args[1]][last'.args[2]].isActive
        /\ ~shares'[last'.args[1]][last'.args[2]].isActive

C10_IdempotentRevocation ==
    [](C10_RevokeNotActiveFails) /\ [][C10_RevokeStep]_vars

\* C10 witness: a share was just revoked (revoking it again fails) while another
\* share of the same owner and a share of another owner are still active.
C10_Witness ==
    /\ last.op = "revokeShare"
    /\ revokeShareRevert(last.args[1], last.args[2]) = "ShamirRecovery: share not active"
    /\ \E i \in ShareIndexes : i # last.args[2] /\ shares[last.args[1]][i].isActive
    /\ \E owner \in ShamirOwners, i \in ShareIndexes :
          owner # last.args[1] /\ shares[owner][i].isActive

\* C11: a recovery session created at time t has deadline t + 24 hours, and
\* submitShare on it reverts with "recovery expired" exactly when
\* now > deadline: up to and at the deadline the session is not expired.
C11_UsableThroughDeadline ==
    \A id \in DOMAIN recoveryAttempts :
        /\ recoveryAttempts[id].deadline = id[3] + 24 * HOUR
        /\ \A shareIndex \in ShareIndexArgs, shareData \in Payloads :
              (submitShareRevert(id[1], id, shareIndex, shareData)
                    = "ShamirRecovery: recovery expired")
                  <=> now > recoveryAttempts[id].deadline

\* C12, in every state: submitShare on a complete session reverts.
C12_CompleteRefusesShares ==
    \A id \in DOMAIN recoveryAttempts :
        recoveryAttempts[id].isComplete =>
            \A shareIndex \in ShareIndexArgs, shareData \in Payloads :
                submitShareRevert(id[1], id, shareIndex, shareData) # ""

\* C12, in every step: a complete session stays complete and keeps its
\* submitted shares and their count, whatever the call (initiateRecovery
\* included).
C12_CompleteStep ==
    \A id \in DOMAIN recoveryAttempts :
        recoveryAttempts[id].isComplete =>
            /\ recoveryAttempts'[id].isComplete
            /\ recoveryAttempts'[id].submittedShares = recoveryAttempts[id].submittedShares
            /\ recoveryAttempts'[id].submittedShareData
                  = recoveryAttempts[id].submittedShareData

\* C12: complete is terminal for a recovery session.
C12_CompleteIsTerminal == [](C12_CompleteRefusesShares) /\ [][C12_CompleteStep]_vars

\* C13, in every state: submitShare for a share record that is not active, or
\* with a payload whose hash differs from the stored shareHash, reverts (a
\* revert leaves the session as it was).
C13_UnauthenticatedReverts ==
    \A id \in DOMAIN recoveryAttempts, shareIndex \in ShareIndexArgs, shareData \in Payloads :
        (\/ ~shareAt(id[1], shareIndex).isActive
         \/ keccak256(shareData) # shareAt(id[1], shareIndex).shareHash)
            => submitShareRevert(id[1], id, shareIndex, shareData) # ""

\* C13, in every step: a payload enters a session only by a submitShare for
\* its index, and it hashes to the shareHash of the active share record of
\* that index at that time.
C13_AcceptStep ==
    \A id \in DOMAIN recoveryAttempts', shareIndex \in ShareIndexes :
        recoveryAttempts'[id].submittedShareData[shareIndex]
              # attemptAt(id[1], id).submittedShareData[shareIndex]
            => /\ last'.op = "submitShare"
               /\ last'.args = <<id[1], id, shareIndex>>
               /\ shares[id[1]][shareIndex].isActive
               /\ keccak256(recoveryAttempts'[id].submittedShareData[shareIndex])
                     = shares[id[1]][shareIndex].shareHash

\* C13: submitShare authenticates every share.
C13_SharesAuthenticated == [](C13_UnauthenticatedReverts) /\ [][C13_AcceptStep]_vars

\* C13 witness: an open session has accepted a share, and refuses another
\* payload for that index as "invalid share".
C13_Witness ==
    /\ last.op = "submitShare"
    /\ ~recoveryAttempts[last.args[2]].isComplete
    /\ \E shareData \in Payloads :
          submitShareRevert(last.args[1], last.args[2], last.args[3], shareData)
              = "ShamirRecovery: invalid share"

(***************************************************************************)
(* Claims checked under SpecSocial                                         *)
(***************************************************************************)
\* The proposal has the approvals executeRecovery asks for.
HasQuorum(proposalId) ==
    recoveryProposals[proposalId].votesFor
        >= socialConfigs[proposalId[1]].requiredApprovals

\* C3: timelock. Every RecoveryExecuted event carries a timestamp that is at
\* least the proposal's creation time plus the owner's recoveryDelay, which is
\* the proposal's deadline; and while now < deadline, executeRecovery on an
\* active proposal reverts with "recovery delay not met" (a revert leaves the
\* proposal as it was), whether or not votesFor >= requiredApprovals holds.
C3_Timelock ==
    /\ \A k \in 1..Len(recoveryExecuted) :
          recoveryExecuted[k].timestamp
              >= recoveryExecuted[k].proposalId[4]
                   + socialConfigs[recoveryExecuted[k].owner].recoveryDelay
    /\ \A id \in DOMAIN recoveryProposals :
          /\ recoveryProposals[id].deadline = id[4] + socialConfigs[id[1]].recoveryDelay
          /\ (recoveryProposals[id].isActive /\ now < recoveryProposals[id].deadline)
                => executeRecoveryRevert(id[1], id) = "SocialRecovery: recovery delay not met"

\* C3 witness: an active proposal that has its quorum before its deadline.
C3_Witness ==
    \E id \in DOMAIN recoveryProposals :
        /\ recoveryProposals[id].isActive
        /\ HasQuorum(id)
        /\ now < recoveryProposals[id].deadline
        /\ executeRecoveryRevert(id[1], id) # ""

\* C4: after executeRecovery has succeeded on a proposal, KeyVault.owner is that
\* proposal's newOwner.
C4_ExecutedProposalOwnsVault ==
    last.op = "executeRecovery"
        => vaultOwner = recoveryProposals[last.args[2]].newOwner

\* A proposal for which a RecoveryExecuted event was emitted.
Executed(proposalId) ==
    \E k \in 1..Len(recoveryExecuted) : recoveryExecuted[k].proposalId = proposalId

\* C5, in every state: executeRecovery on a proposal it has executed reverts, the
\* proposal is executed and not active, and one RecoveryExecuted event was
\* emitted for it.
C5_ExecutedStaysExecuted ==
    \A id \in DOMAIN recoveryProposals :
        Executed(id) =>
            /\ executeRecoveryRevert(id[1], id) # ""
            /\ recoveryProposals[id].isExecuted
            /\ ~recoveryProposals[id].isActive
            /\ Cardinality({k \in 1..Len(recoveryExecuted) :
                                recoveryExecuted[k].proposalId = id}) = 1

\* C5, in every step: no call changes isExecuted, isActive or the tallies of a
\* proposal that was executed.
C5_ExecutedStep ==
    \A id \in DOMAIN recoveryProposals :
        Executed(id) =>
            /\ recoveryProposals'[id].isExecuted = recoveryProposals[id].isExecuted
            /\ recoveryProposals'[id].isActive = recoveryProposals[id].isActive
            /\ recoveryProposals'[id].votesFor = recoveryProposals[id].votesFor
            /\ recoveryProposals'[id].votesAgainst = recoveryProposals[id].votesAgainst

\* C5: no double execution.
C5_NoDoubleExecution == [](C5_ExecutedStaysExecuted) /\ [][C5_ExecutedStep]_vars

\* C5 witness: a call has succeeded after the execution of a proposal, whose
\* deadline has passed and whose quorum still holds.
C5_Witness ==
    \E id \in DOMAIN recoveryProposals :
        /\ Executed(id)
        /\ last.op # "executeRecovery"
        /\ HasQuorum(id)
        /\ now >= recoveryProposals[id].deadline
        /\ executeRecoveryRevert(id[1], id) = "SocialRecovery: proposal not active"

\* C7: for every proposal, votesFor is the number of accounts recorded as
\* having voted for, votesAgainst the number recorded as having voted
\* against, and voteRecovery by an account recorded as having voted reverts.
C7_OneCountedVotePerGuardian ==
    \A id \in DOMAIN recoveryProposals :
        /\ recoveryProposals[id].votesFor =
              Cardinality({a \in Accounts : /\ recoveryProposals[id].hasVoted[a]
                                            /\ recoveryProposals[id].voteChoice[a]})
        /\ recoveryProposals[id].votesAgainst =
              Cardinality({a \in Accounts : /\ recoveryProposals[id].hasVoted[a]
                                            /\ ~recoveryProposals[id].voteChoice[a]})
        /\ \A a \in Accounts, vote \in BOOLEAN :
              recoveryProposals[id].hasVoted[a]
                  => voteRecoveryRevert(id[1], id, vote, a) # ""

\* The accounts that are guardians of owner: added and not removed.
ActiveGuardians(owner) == {a \in Accounts : isGuardianAt(owner, a)}

\* The guardians of the proposal's owner recorded as having voted against it.
GuardiansAgainst(proposalId) ==
    {a \in ActiveGuardians(proposalId[1]) :
        /\ recoveryProposals[proposalId].hasVoted[a]
        /\ ~recoveryProposals[proposalId].voteChoice[a]}

\* C15: rejectRecovery on an active proposal succeeds if and only if more than
\* half of the owner's guardians voted against it, or the deadline has passed
\* with votesFor < requiredApprovals; after a rejectRecovery that succeeded the
\* proposal is not active and not executed.
C15_RejectIffMajorityOrExpired ==
    /\ \A id \in DOMAIN recoveryProposals :
          recoveryProposals[id].isActive =>
              ((rejectRecoveryRevert(id[1], id) = "")
                <=> \/ 2 * Cardinality(GuardiansAgainst(id))
                          > Cardinality(ActiveGuardians(id[1]))
                    \/ /\ now >= recoveryProposals[id].deadline
                       /\ ~HasQuorum(id))
    /\ last.op = "rejectRecovery"
          => /\ ~recoveryProposals[last.args[2]].isActive
             /\ ~recoveryProposals[last.args[2]].isExecuted

\* C16, in every state: an executed proposal is not active, and no vote,
\* execute or reject succeeds on a proposal that is not active.
C16_InactiveRefusesCalls ==
    \A id \in DOMAIN recoveryProposals :
        /\ recoveryProposals[id].isExecuted => ~recoveryProposals[id].isActive
        /\ ~recoveryProposals[id].isActive =>
              /\ executeRecoveryRevert(id[1], id) # ""
              /\ rejectRecoveryRevert(id[1], id) # ""
              /\ \A sender \in Accounts, vote \in BOOLEAN :
                    voteRecoveryRevert(id[1], id, vote, sender) # ""

\* C16, in every step: a proposal that is not active stays not active, an
\* executed one stays executed and a rejected one stays not executed.
C16_TerminalStep ==
    \A id \in DOMAIN recoveryProposals :
        ~recoveryProposals[id].isActive =>
            /\ ~recoveryProposals'[id].isActive
            /\ recoveryProposals'[id].isExecuted = recoveryProposals[id].isExecuted

\* C16: executed and rejected are terminal states of a proposal.
C16_TerminalStates == [](C16_InactiveRefusesCalls) /\ [][C16_TerminalStep]_vars

\* The account has a Guardian record of owner that is active.
HasActiveGuardianRecord(owner, account) ==
    \E k \in DOMAIN guardians[owner] :
        /\ guardians[owner][k].guardianAddress = account
        /\ guardians[owner][k].isActive

C18_ClosedRefusesVotes ==
    \A id \in DOMAIN recoveryProposals, sender \in Accounts, vote \in BOOLEAN :
        (~recoveryProposals[id].isActive \/ now >= recoveryProposals[id].deadline)
            => voteRecoveryRevert(id[1], id, vote, sender) # ""

\* C18, in every step: once now >= deadline the tallies and the vote records
\* of a proposal do not change.
C18_ClosedStep ==
    \A id \in DOMAIN recoveryProposals :
        now >= recoveryProposals[id].deadline =>
            /\ recoveryProposals'[id].votesFor = recoveryProposals[id].votesFor
            /\ recoveryProposals'[id].votesAgainst = recoveryProposals[id].votesAgainst
            /\ recoveryProposals'[id].hasVoted = recoveryProposals[id].hasVoted
            /\ recoveryProposals'[id].voteChoice = recoveryProposals[id].voteChoice

C37_QuorumAttainable ==
    last.op = "proposeRecovery"
       => socialConfigs[last.args[1]].requiredApprovals
             <= Cardinality({k \in DOMAIN guardians[last.args[1]] :
                                guardians[last.args[1]][k].isActive})

(***************************************************************************)
(* Claims checked under SpecVault                                          *)
(***************************************************************************)
\* C19: KeyVault.initiateRecovery. For a valid key with Shamir enabled the
\* call with method Shamir succeeds; for a valid key with Social enabled the
\* call with method Social by a guardian of the vault's owner succeeds; for an
\* invalid key or a method that is not enabled for the key the call reverts;
\* and the call that has just succeeded has created a Shamir session of the
\* vault's owner or an active proposal for the vault's owner.
C19_InitiateRecoveryDelegates ==
    /\ \A sender \in VaultSenders, keyId \in 0..(MaxKeys + 1) :
          /\ (validKeyId(keyId) /\ keys[keyId].hasSharedShares)
                => KeyVault_initiateRecoveryRevert(sender, keyId, "Shamir") = ""
          /\ (/\ validKeyId(keyId)
              /\ keys[keyId].hasSocialBackup
              /\ isGuardianAt(vaultOwner, sender)
              /\ sender # vaultOwner)
                => KeyVault_initiateRecoveryRevert(sender, keyId, "Social") = ""
          /\ (\/ ~validKeyId(keyId)
              \/ ~keys[keyId].hasSharedShares)
                => KeyVault_initiateRecoveryRevert(sender, keyId, "Shamir") # ""
          /\ (\/ ~validKeyId(keyId)
              \/ ~keys[keyId].hasSocialBackup)
                => KeyVault_initiateRecoveryRevert(sender, keyId, "Social") # ""
    /\ last.op = "initiateRecovery"
          => /\ last.args[1] = vaultOwner
             /\ last.args[2] \in DOMAIN recoveryAttempts
    /\ last.op = "proposeRecovery"
          => /\ last.args[1] = vaultOwner
             /\ recoveryProposals[last.args[2]].isActive

\* C20: apart from setRecoveryMethod, no call removes a method from the
\* selection reported for the vault's current owner
\* (userRecoveryMethod[owner], as getKeyRecoveryStatus returns it), and enabling
\* a method while the other one is selected gives Both.
MethodsOf(selection) ==
    CASE selection = "None" -> {}
      [] selection = "Shamir" -> {"Shamir"}
      [] selection = "Social" -> {"Social"}
      [] selection = "Both" -> {"Shamir", "Social"}

C20_MonotonicStep ==
    (steps' # steps /\ last'.op # "setRecoveryMethod") =>
        /\ MethodsOf(userRecoveryMethod[vaultOwner])
              \subseteq MethodsOf(userRecoveryMethod'[vaultOwner'])
        /\ (last'.op = "configureShamir" /\ userRecoveryMethod[vaultOwner] = "Social")
              => userRecoveryMethod'[vaultOwner'] = "Both"
        /\ (last'.op = "configureSocialRecovery" /\ userRecoveryMethod[vaultOwner] = "Shamir")
              => userRecoveryMethod'[vaultOwner'] = "Both"

C20_MethodSelectionMonotonic == [][C20_MonotonicStep]_vars

(***************************************************************************)
(* Further claims checked under SpecShamir                                 *)
(***************************************************************************)
\* C21: every initialized ShamirConfig has 2 <= threshold <= totalShares <= 255,
\* and configureShamir with parameters outside that range reverts.
C21_ConfigInRange ==
    /\ \A owner \in ShamirOwners :
          shamirConfigs[owner].isInitialized =>
             /\ 2 <= shamirConfigs[owner].threshold
             /\ shamirConfigs[owner].threshold <= shamirConfigs[owner].totalShares
             /\ shamirConfigs[owner].totalShares <= 255
    /\ \A owner \in ShamirOwners, threshold, totalShares \in 0..MaxShamirShares :
          ~(2 <= threshold /\ threshold <= totalShares /\ totalShares <= 255)
             => configureShamirRevert(owner, threshold, totalShares) # ""

(***************************************************************************)
(* Further claims checked under SpecSocial                                 *)
(***************************************************************************)
\* C22: no owner has two Guardian records with the same address, no owner is
\* their own guardian, no guardian has the zero address; and an addGuardian
\* with the zero address, the owner's address or the address of a Guardian
\* record of this owner reverts (a revert changes neither the guardian set nor
\* totalGuardians).
C22_GuardiansUnique ==
    /\ \A owner \in SocialOwners :
          /\ \A i, j \in DOMAIN guardians[owner] :
                i # j => guardians[owner][i].guardianAddress
                            # guardians[owner][j].guardianAddress
          /\ \A i \in DOMAIN guardians[owner] :
                /\ guardians[owner][i].guardianAddress # owner
                /\ guardians[owner][i].guardianAddress # ZeroAddress
          /\ ~isGuardianAt(owner, owner)
          /\ ~isGuardianAt(owner, ZeroAddress)
    /\ \A owner \in SocialOwners, guardianAddress \in GuardianArgs :
          (\/ guardianAddress = ZeroAddress
           \/ guardianAddress = owner
           \/ \E i \in DOMAIN guardians[owner] :
                 guardians[owner][i].guardianAddress = guardianAddress)
             => addGuardianRevert(owner, guardianAddress, "enc", "cid") # ""

(***************************************************************************)
(* Claims checked under SpecGF256                                          *)
(***************************************************************************)
\* C30: GF256.divide(a, 0) throws for every field element a, a = 0 included;
\* it never returns a value.
C30_DivideByZeroThrows ==
    (gfPc = "done" /\ gfOp = "divide" /\ gfB = 0) => ~gfResult.ok

\* The product of the polynomials a and b over GF(2), before reduction: the
\* sum of a * x^i over the bits i set in b.
RECURSIVE polynomialProduct(_, _)
polynomialProduct(a, b) ==
    IF b = 0 THEN 0
    ELSE BitXor(IF b % 2 = 1 THEN a ELSE 0, 2 * polynomialProduct(a, b \div 2))

\* p modulo x^8+x^4+x^3+x+1 (283), clearing the bits degree..8 from the top.
RECURSIVE polynomialReduce(_, _)
polynomialReduce(p, degree) ==
    IF degree < 8 THEN p
    ELSE polynomialReduce(
             IF (p \div (2 ^ degree)) % 2 = 1
             THEN BitXor(p, 283 * (2 ^ (degree - 8))) ELSE p,
             degree - 1)

fieldProduct(a, b) == polynomialReduce(polynomialProduct(a, b), 14)

\* C34: GF256.multiply(a, b) is the product of a and b in the field defined by
\* x^8+x^4+x^3+x+1, LOG_TABLE is defined for every non-zero element, and
\* divide(multiply(a, b), b) = a for every b # 0.
C34_MultiplyIsFieldProduct ==
    (gfPc = "done" /\ gfOp = "multiply") =>
       /\ gfResult = Ok(fieldProduct(gfA, gfB))
       /\ DOMAIN LOG_TABLE = GFElements \ {0}
       /\ gfB # 0 => GF256_divide(gfResult.val, gfB) = Ok(gfA)

\* C34 witness: multiply(87, 101) was called and returned 2, a product whose
\* logarithms add up to 255 or more.
C34_Witness ==
    /\ gfPc = "done"
    /\ gfOp = "multiply"
    /\ gfA = 87
    /\ gfB = 101
    /\ gfResult = Ok(2)
    /\ LOG_TABLE[gfA] + LOG_TABLE[gfB] >= 255

(***************************************************************************)
(* Claims checked under SpecRegistry                                       *)
(***************************************************************************)
\* A renewal candidate: an Active deal whose endEpoch is within the owner's
\* renewal window.
RenewalCandidate(dealHash) ==
    /\ dealHash \in DOMAIN deals
    /\ deals[dealHash].status = "Active"
    /\ deals[dealHash].endEpoch <= now + redundancyConfigs[dealHash[1]].renewalWindow

\* C26, in every step: a deal that moves to Renewed was a renewal candidate
\* and its endEpoch grows strictly; a renewDeal leaves every deal that was not
\* a candidate as it was.
C26_RenewStep ==
    /\ \A dealHash \in DOMAIN deals' :
          (/\ deals'[dealHash].status = "Renewed"
           /\ dealAt(dealHash[1], dealHash).status # "Renewed")
             => /\ RenewalCandidate(dealHash)
                /\ deals'[dealHash].endEpoch > deals[dealHash].endEpoch
    /\ (steps' = steps + 1 /\ last'.op = "renewDeal")
          => \A dealHash \in DOMAIN deals :
                ~RenewalCandidate(dealHash) => deals'[dealHash] = deals[dealHash]

\* C26: renewal only touches candidates and always extends.
C26_RenewalOnlyCandidates == [][C26_RenewStep]_vars

\* The currently active providers holding a replica of dataHash: a set, so each
\* provider counts once.
ActiveReplicaProviders(dataHash) ==
    {provider \in RegistryProviders :
        /\ providers[provider].isActive
        /\ \E i \in DOMAIN dataReplicas[dataHash] : dataReplicas[dataHash][i] = provider}

\* C27: isRedundancyMet(owner, dataHash) is true if and only if the number of
\* distinct, currently active providers holding a replica of dataHash is at
\* least the owner's minReplicas.
C27_RedundancyMetIffActiveReplicas ==
    \A owner \in RegistryOwners, dataHash \in DataHashes :
       isRedundancyMet(owner, dataHash)
          <=> Cardinality(ActiveReplicaProviders(dataHash))
                 >= redundancyConfigs[owner].minReplicas

\* The providers that are currently active.
ActiveProviders == {provider \in RegistryProviders : providers[provider].isActive}

\* C28: every configured RedundancyConfig has
\* 0 < minReplicas <= maxReplicas <= number of currently active providers.
C28_ReplicasWithinActiveProviders ==
    \A owner \in RegistryOwners :
       redundancyConfigs[owner] # EmptyRedundancyConfig
          => /\ 0 < redundancyConfigs[owner].minReplicas
             /\ redundancyConfigs[owner].minReplicas <= redundancyConfigs[owner].maxReplicas
             /\ redundancyConfigs[owner].maxReplicas <= Cardinality(ActiveProviders)

\* C29, in every step: a deal that comes into existence is Pending, no deal's
\* status returns to Pending, and none leaves Expired or Failed for Active.
C29_LifecycleStep ==
    \A dealHash \in DOMAIN deals' :
       IF dealHash \in DOMAIN deals
       THEN /\ (deals[dealHash].status # "Pending"
                   => deals'[dealHash].status # "Pending")
            /\ (deals[dealHash].status \in {"Expired", "Failed"}
                   => deals'[dealHash].status # "Active")
       ELSE deals'[dealHash].status = "Pending"

\* C29: storage deals follow the lifecycle
\* Pending -> Active -> {Expired, Renewed, Failed}.
C29_DealLifecycle == [][C29_LifecycleStep]_vars

\* C39: providerList holds each provider address at most once, and
\* selectProvidersForRedundancy returns no provider twice.
C39_ProviderListDistinct ==
    /\ \A i, j \in 1..Len(providerList) : i # j => providerList[i] # providerList[j]
    /\ \A owner \in RegistryOwners,
          excludeProviders \in {<< >>} \cup {<<p>> : p \in RegistryProviders} :
          LET result == selectProvidersForRedundancy(owner, excludeProviders)
          IN  result.ok =>
                 \A i, j \in 1..Len(result.val) : i # j => result.val[i] # result.val[j]

(***************************************************************************)
(* Claims checked under SpecStorage                                        *)
(***************************************************************************)
\* The errors storeWithRedundancy throws before any provider is selected.
StoreNotStarted ==
    {"Wallet not connected", "No providers available",
     "Need count providers, only availableProviders.length available"}

\* The uploads that returned a pieceCid, in the order they were made.
SuccessfulUploads ==
    LET Succeeded(attempt) == attempt[2] = "pieceCid"
    IN  SelectSeq(storeAttempts, Succeeded)

\* C23: once storeWithRedundancy has selected its providers, every one of them
\* gets an upload whatever the outcome of the others, and nothing is decided
\* before the last upload has ended; then the call fails with "Failed to meet
\* minimum redundancy" if and only if fewer than minReplicas uploads
\* succeeded, and otherwise returns redundancyMet = true with one deal per
\* successful upload.
C23_PartialFailureTolerant ==
    /\ hookPc = "uploading"
          => /\ storeResult = Fail("")
             /\ Len(storeAttempts) = storeI
             /\ storeI < Len(storeProviders)
    /\ (hookPc = "done" /\ storeResult.err \notin StoreNotStarted)
          => /\ Len(storeAttempts) = Len(storeProviders)
             /\ \A k \in DOMAIN storeProviders :
                   storeAttempts[k][1] = storeProviders[k].address
             /\ Len(storeDeals) = Len(SuccessfulUploads)
             /\ \A k \in DOMAIN storeDeals :
                   storeDeals[k].provider = SuccessfulUploads[k][1]
             /\ (storeResult = Fail("Failed to meet minimum redundancy"))
                   <=> (Len(SuccessfulUploads) < redundancyConfig.minReplicas)
             /\ Len(SuccessfulUploads) >= redundancyConfig.minReplicas
                   => /\ storeResult.ok
                      /\ storeResult.val.redundancyMet
                      /\ storeResult.val.replicas = storeDeals

\* C23 witness: of three uploads the first was rejected, the other two
\* succeeded, and the distribution succeeded with minReplicas = 2.
C23_Witness ==
    /\ hookPc = "done"
    /\ Len(storeAttempts) = 3
    /\ storeAttempts[1][2] = "rejected"
    /\ redundancyConfig.minReplicas = 2
    /\ Len(storeDeals) = 2
    /\ storeResult.ok

\* The providers of providersData that are active and not excluded.
EligibleProviders(excludeProviders) ==
    {providersData[k] : k \in {i \in DOMAIN providersData :
        /\ providersData[i].isActive
        /\ ~includes(excludeProviders, providersData[i].address)}}

\* a ranks strictly before b: higher reputation, or the same and a lower price.
RanksBefore(a, b) ==
    \/ a.reputation > b.reputation
    \/ a.reputation = b.reputation /\ priceNumber(a) < priceNumber(b)

addressNumber(address) ==
    CASE address = "0x1" -> 1
      [] address = "0x2" -> 2
      [] address = "0x3" -> 3

\* C25: the result of selectOptimalProviders is the same for every order in
\* which the same providers are listed, and returned providers of equal
\* reputation and equal price are in the order of their addresses.
C25_SelectionDeterministic ==
    hookPc = "selected" =>
       /\ \A p \in Permutations(DOMAIN providersData) :
             selectOptimalProviders(Permuted(providersData, p), selectArgs[1],
                                    selectArgs[2]) = selectResult
       /\ selectResult.ok
             => \A i, j \in DOMAIN selectResult.val :
                   (/\ i < j
                    /\ selectResult.val[i].reputation = selectResult.val[j].reputation
                    /\ priceNumber(selectResult.val[i]) = priceNumber(selectResult.val[j]))
                      => addressNumber(selectResult.val[i].address)
                            < addressNumber(selectResult.val[j].address)

(***************************************************************************)
(* Claims checked under SpecReconstruct                                    *)
(***************************************************************************)
\* C31: reconstructSecret on shares in which two of the first M shares have
\* the same index fails with an error; it returns no byte sequence.
C31_DegeneratePointsAbort ==
    (/\ sssPc = "reconstructedGiven"
     /\ sssPicked # <<>>
     /\ \E i, j \in DOMAIN sssPicked :
           /\ i < j
           /\ j <= sssPicked[1].threshold
           /\ sssPicked[i].x = sssPicked[j].x)
       => ~sssResult.ok

(***************************************************************************)
(* Claims checked under SpecOwners                                         *)
(***************************************************************************)
\* All that ShamirRecovery and SocialRecovery store for one owner.
OwnerState(owner) ==
    LET attemptsOf == {id \in DOMAIN recoveryAttempts : id[1] = owner}
        proposalsOf == {id \in DOMAIN recoveryProposals : id[1] = owner}
    IN  <<shamirConfigs[owner], shares[owner],
          [id \in attemptsOf |-> recoveryAttempts[id]],
          [id \in attemptsOf |-> acceptedIndices[id]],
          socialConfigs[owner], guardians[owner], isGuardian[owner],
          [id \in proposalsOf |-> recoveryProposals[id]], ownerProposals[owner]>>

\* C32, in every step: a call for owner A leaves what the contracts store for
\* every other owner B as it was.  (A call that reverts changes nothing.)
C32_IsolationStep ==
    \A A, B \in OwnerArgs :
       (A # B /\ steps' = steps + 1 /\ last'.op # "tick" /\ last'.args[1] = A)
          => OwnerState(B)' = OwnerState(B)

\* C32: owner isolation.
C32_OwnerIsolation == [][C32_IsolationStep]_vars

\* C32 witness: a share of owner 0xA was just revoked while owner 0xB is
\* configured and has an active share at the same index.
C32_Witness ==
    /\ last = [op |-> "revokeShare", args |-> <<"0xA", 1>>]
    /\ shamirConfigs["0xB"].isInitialized
    /\ shares["0xB"][1].isActive
    /\ ~shares["0xA"][1].isActive

(***************************************************************************)
(* Claims checked under SpecSecrecy                                        *)
(***************************************************************************)
\* C33: for the secret that was split and every secret of the same length,
\* at every set of at most M - 1 share indices the payloads splitSecret can
\* produce are the same for both secrets; in particular the payloads it did
\* produce can be produced for the other secret.  (The bytes drawn for one
\* share are drawn for no other, so the combinations at a set of indices are
\* the products of the payloads at each index.)
C33_ThresholdSecrecy ==
    (sssPc = "split" /\ sssShares.ok) =>
       \A other \in SecrecySecrets :
          Len(other) = Len(sssSecret) =>
             \A indices \in SUBSET (1..sssTotal) :
                Cardinality(indices) <= sssThreshold - 1 =>
                   \A shareIndex \in indices :
                      /\ payloadsOf(sssSecret, sssThreshold, shareIndex)
                            = payloadsOf(other, sssThreshold, shareIndex)
                      /\ sssShares.val[shareIndex].y
                            \in payloadsOf(other, sssThreshold, shareIndex)

\* C33 witness: a secret was split with threshold 3 into three shares, and
\* the payloads of shares 1 and 3 differ from the secret.
C33_Witness ==
    /\ sssPc = "split"
    /\ sssShares.ok
    /\ sssSecret = <<83>>
    /\ sssThreshold = 3
    /\ sssTotal = 3
    /\ sssShares.val[1].y # sssSecret
    /\ sssShares.val[3].y # sssSecret

(***************************************************************************)
(* Claims checked under SpecSubmit                                         *)
(***************************************************************************)
collectedIndexes == {recoveryAttempt.collectedShares[k].x :
                        k \in 1..Len(recoveryAttempt.collectedShares)}

\* C35: when two submitShare calls for different share indices were in flight
\* at the same time and both were accepted, both shares are in collectedShares
\* and isComplete tells whether the distinct shares collected reach
\* requiredShares.
C35_ConcurrentSubmitsKept ==
    \A i, j \in 1..Len(submitCalls) :
       (/\ i \in submitCalls[j].inFlight
        /\ submitCalls[i].pc = "accepted"
        /\ submitCalls[j].pc = "accepted"
        /\ submitCalls[i].share.x # submitCalls[j].share.x) =>
          /\ {submitCalls[i].share.x, submitCalls[j].share.x} \subseteq collectedIndexes
          /\ recoveryAttempt.isComplete
                = (Cardinality(collectedIndexes) >= recoveryAttempt.requiredShares)

(***************************************************************************)
(* Claims checked under SpecVote                                           *)
(***************************************************************************)
\* C36: of two voteOnProposal calls of the same guardian that were in flight
\* at the same time at most one is accepted, and the tallies of a proposal
\* never exceed the number of addresses in its guardianVotes.
C36_NoDoubleCount ==
    /\ \A i, j \in 1..Len(voteCalls) :
          (/\ i \in voteCalls[j].inFlight
           /\ voteCalls[i].address = voteCalls[j].address)
          => ~(voteCalls[i].pc = "accepted" /\ voteCalls[j].pc = "accepted")
    /\ \A k \in 1..Len(activeProposals) :
          activeProposals[k].votesFor + activeProposals[k].votesAgainst
             <= Cardinality(DOMAIN activeProposals[k].guardianVotes)


(***************************************************************************)
(* Claims checked under SpecSocialDeadline                                 *)
(***************************************************************************)
\* C38: in no state are executeRecovery and rejectRecovery both enabled for the
\* same proposal.
C38_NeverBothEnabled ==
    \A id \in DOMAIN recoveryProposals :
       ~(/\ executeRecoveryRevert(id[1], id) = ""
         /\ rejectRecoveryRevert(id[1], id) = "")

(***************************************************************************)
(* Claims checked under SpecRenew                                          *)
(***************************************************************************)
\* C40, for every step: a renewDeals call made with the wallet connected
\* selects every deal whose status is renewed and whose endEpoch is within the
\* renewal window: it sets the deal's endEpoch to now + persistencePeriod.
C40_RenewStep ==
    (last'.op = "renewDeals" /\ steps' # steps /\ last'.args[1]) =>
       \A k \in 1..Len(dealObjects) :
          (/\ dealObjects[k].status = "renewed"
           /\ dealObjects[k].endEpoch <= dateNow + last'.args[2])
          => /\ dealObjects'[k].endEpoch = dateNow + last'.args[3]
             /\ renewResult'.ok
             /\ renewResult'.val.renewed >= 1

C40_RenewedRenewable == [][C40_RenewStep]_vars

=========================================================================
